---- MODULE Spec2Model ----
(***************************************************************************)
(* A model of alittlebitofmoney-mcp: the tool registry's reconciliation    *)
(* state machine (src/tools/registry.ts) over the tool-synthesis engine    *)
(* (src/dedup.ts), and the payment-aware HTTP client (src/httpClient.ts).  *)
(*                                                                         *)
(* Strings that the code builds by joining pieces are kept as the sequence *)
(* of their pieces: a path "/v1/images/edits" is <<"v1","images","edits">>,*)
(* a tool name "albom_openai_responses" is <<"albom","openai","responses">>*)
(* and an Authorization value "L402 m:p" is <<"L402 ", m, ":", p>>.        *)
(* A SHA-256 digest is kept as the value it digests.                       *)
(* An optional value (T | undefined) is a sequence of length at most one.  *)
(***************************************************************************)
EXTENDS Integers, Sequences, FiniteSets, TLC

\* ------------------------------------------------------------------ bounds

\* syncTools/initialize calls that may be suspended on the catalog fetch at once
MaxInflight == 2
\* syncTools/initialize calls started in one behaviour
MaxSyncCalls == 2

\* maxEntries values of the token cache: 1 .. MaxEntriesBound
MaxEntriesBound == 2
\* the clock runs from 0 to MaxClock
MaxClock == 3

\* getState calls made in one behaviour
MaxGetStateCalls == 3
\* most endpoints in a catalog document handed to parseCatalog
MaxCatalogEndpoints == 2
\* most endpoints in a CatalogState handed to buildToolState
MaxToolEndpoints == 3
\* most endpoints in a CatalogState buildToolState is called with a second time
MaxRebuiltEndpoints == 2

\* ------------------------------------------------------------ small helpers

Undefined == <<>>
Some(v) == <<v>>
IsDefined(o) == o # <<>>

\* A string is kept as the sequence of the pieces it is written with.
Str(piece) == <<piece>>
EmptyString == <<>>

Range(s) == {s[i] : i \in 1..Len(s)}

RECURSIVE SeqOfSet(_)
SeqOfSet(S) == IF S = {} THEN <<>>
               ELSE LET x == CHOOSE y \in S : TRUE IN <<x>> \o SeqOfSet(S \ {x})

RemoveAt(s, i) == SubSeq(s, 1, i - 1) \o SubSeq(s, i + 1, Len(s))

\* ------------------------------------------------------------------- state

VARIABLES
  config,               \* AlbomToolRegistry.config
  toolState,            \* AlbomToolRegistry.toolState: ToolState | undefined
  catalogState,         \* AlbomToolRegistry.catalogState: CatalogState | undefined
  registeredTools,      \* AlbomToolRegistry.registeredTools: the handles, in order
  hostTools,            \* the host server's registered tool names
  connected,            \* server.isConnected()
  toolListChangedCount, \* list-changed notifications the host has been sent
  inflight,             \* syncTools calls suspended on catalogProvider.getState
  started,              \* syncTools calls started so far
  last                  \* the registry operation that completed last, with the state it started from

regVars == <<config, toolState, catalogState, registeredTools, hostTools, connected,
             toolListChangedCount, inflight, started, last>>

VARIABLES
  hOptions,        \* HttpClientOptions: bearerToken, l402Handler, maxRetries
  hCall,           \* the call in progress: method, RequestOptions, request headers
  hPc,             \* where the call is suspended
  hAttempt,        \* the loop variable of requestWithRetries
  hFetches,        \* the requests handed to fetchFn, in order
  hHistory,        \* what each attempt of the loop received
  hResponse,       \* the response in hand (attempt's or replay's)
  hOriginal,       \* the 402 an auto-pay is working on: headers, data, challenge
  hPaid,           \* the challenges handed to the auto-pay handler, in order
  hSleeps,         \* the attempts after which a backoff sleep was taken
  hReplay,         \* what the auto-pay replay received
  hResult,         \* what the call resolved or rejected with
  hTimers          \* the timer of each fetchWithTimeout call, in order: armed or cleared

httpVars == <<hOptions, hCall, hPc, hAttempt, hFetches, hHistory, hResponse, hOriginal,
              hPaid, hSleeps, hReplay, hResult, hTimers>>

VARIABLES
  cOptions,        \* L402TokenCache: maxEntries, defaultTtlMs
  cEntries,        \* L402TokenCache.entries: the Map's entries in insertion order
  cCleanupTimer,   \* L402TokenCache.cleanupTimer is set
  cIntervals,      \* interval timers set by startCleanup and not cleared
  cNow,            \* Date.now()
  cLast            \* the cache operation that completed last, with the entries it started from

cacheVars == <<cOptions, cEntries, cCleanupTimer, cIntervals, cNow, cLast>>

VARIABLES
  gTtlMs,          \* CatalogManager.options.ttlMs
  gState,          \* CatalogManager.state: CatalogState | undefined
  gLastFetchMs,    \* CatalogManager.lastFetchMs
  gInflight,       \* CatalogManager.inflight: the fetch the shared promise is for
  gNow,            \* Date.now()
  gFetches,        \* the fetchAndNormalize runs started, in order
  gCalls           \* the getState calls made, in order, with what each received

managerVars == <<gTtlMs, gState, gLastFetchMs, gInflight, gNow, gFetches, gCalls>>

VARIABLES
  xOptions,        \* the HTTP client's bearerToken and l402Handler
  xCatalog,        \* what getCatalogState returns
  xCall,           \* the execute call made: its tool and argument object, and
                   \* the catalog state current when it was made
  xPc,             \* where execute is: idle, preparing, posting, refreshing, done
  xPlan,           \* what the handler did up to its first await of the upstream
  xUpstream,       \* what the HTTP client gave the handler: a response or a thrown error
  xOutcome         \* how the promise execute returned settled

execVars == <<xOptions, xCatalog, xCall, xPc, xPlan, xUpstream, xOutcome>>

VARIABLES
  rResponse,       \* the NormalizedHttpResponse handed to fromHttpResponse
  rResult          \* the AlbomToolResult it returned, once it has

resultVars == <<rResponse, rResult>>

VARIABLES
  lHeaders,        \* the response headers handed to parseL402Challenge
  lBody,           \* the parsed response body handed to it
  lResult          \* what it returned, once it has: [challenge |-> L402Challenge | undefined]

challengeVars == <<lHeaders, lBody, lResult>>

VARIABLES
  kInput,          \* the catalog document handed to parseCatalog
  kParsed,         \* what parseCatalog did, once it has: returned the catalog or threw
  kState           \* the CatalogState normalizeCatalog built from it, once it has

parseVars == <<kInput, kParsed, kState>>

VARIABLES
  sCatalog,        \* CatalogState.endpoints handed to buildToolState
  sConfig,         \* the AlbomConfig handed to it
  sToolState,      \* the ToolState it returned, once it has
  sPrevious        \* the ToolState the call before returned, with its catalog and config

synthVars == <<sCatalog, sConfig, sToolState, sPrevious>>

VARIABLES
  tMode,           \* the paymentMode the tools are registered with
  tContext,        \* whether an L402PassthroughContext was handed over
  tRegistered,     \* the registry's tools are registered with the host
  tCall,           \* the tool call awaiting executor.execute
  tLog             \* the last finished tool calls, oldest first

callbackVars == <<tMode, tContext, tRegistered, tCall, tLog>>

vars == <<regVars, httpVars, cacheVars, managerVars, execVars, resultVars, challengeVars,
          parseVars, synthVars, callbackVars>>

\* ------------------------------------------------- catalog (endpoint data)

PathResponses == <<"v1", "responses">>
PathChat == <<"v1", "chat", "completions">>
PathImagesGen == <<"v1", "images", "generations">>
PathImagesEdit == <<"v1", "images", "edits">>
PathTranscribe == <<"v1", "audio", "transcriptions">>
PathTranslate == <<"v1", "audio", "translations">>
PathSpeech == <<"v1", "audio", "speech">>
PathVideo == <<"v1", "video", "generations">>
PathModerations == <<"v1", "moderations">>
PathEmbeddings == <<"v1", "embeddings">>

\* String.prototype.startsWith between one path segment and a shorter text, for
\* the segments the catalogs use: the pairs in which the segment is longer.
SegmentPrefixes ==
  {<<"images-edits", "images">>, <<"images_edits", "images">>, <<"chats", "chat">>}
SegmentStartsWith(segment, prefix) ==
  segment = prefix \/ <<segment, prefix>> \in SegmentPrefixes

\* path.startsWith(prefix) on paths kept as their segments.
PathStartsWith(path, prefix) ==
  /\ Len(path) >= Len(prefix)
  /\ \A k \in 1..(Len(prefix) - 1) : path[k] = prefix[k]
  /\ SegmentStartsWith(path[Len(prefix)], prefix[Len(prefix)])

classifyFamily(path) ==
  IF PathStartsWith(path, <<"v1", "chat">>) \/ PathStartsWith(path, <<"v1", "responses">>)
  THEN "text-generation"
  ELSE IF PathStartsWith(path, <<"v1", "images">>) THEN "image"
  ELSE IF PathStartsWith(path, <<"v1", "audio">>) THEN "audio"
  ELSE IF PathStartsWith(path, <<"v1", "video">>) THEN "video"
  ELSE IF PathStartsWith(path, <<"v1", "moderations">>) THEN "moderation"
  ELSE IF PathStartsWith(path, <<"v1", "embeddings">>) THEN "embedding"
  ELSE IF path = <<>> THEN "other" ELSE path[1]

\* The model names the catalogs use, in the order Array.prototype.sort leaves them.
ModelOrder ==
  <<"gpt-4o", "gpt-4o-mini", "m01", "m02", "m03", "m04", "m05", "m06", "m07", "m08", "m09",
    "m10", "m11", "m12", "m13", "m14", "m15", "m16", "m17", "m18", "m19", "m20", "m21">>

\* models[0] of the sorted model names: undefined for an endpoint without models.
FirstModel(models) ==
  LET ranks == {k \in 1..Len(ModelOrder) : ModelOrder[k] \in models}
  IN IF ranks = {} THEN Undefined
     ELSE Some(ModelOrder[CHOOSE k \in ranks : \A j \in ranks : k <= j])

\* An EndpointDescriptor of a flat-priced endpoint, reduced to the fields tool
\* synthesis, dedup and pricing read. modelPrices is kept as the sequence of
\* its entries <<model name, price_sats>> in the order the object holds them
\* (the order of insertion); models is the set of the names other than
\* "_default".
Endpoint(path, method, contentType, fileField, price) ==
  [apiKey |-> "openai", apiName |-> "OpenAI", description |-> <<"POST ">> \o path,
   path |-> path, method |-> method,
   contentType |-> contentType, fileField |-> fileField,
   priceType |-> "flat", flatPriceSats |-> Some(price), modelPrices |-> <<>>,
   models |-> {}, defaultModel |-> Undefined, family |-> classifyFamily(path)]

\* The descriptor normalizeCatalog builds when the endpoint is priced per model.
PricedNames(modelPrices) == {modelPrices[k][1] : k \in DOMAIN modelPrices}
PerModel(endpoint, modelPrices) ==
  [endpoint EXCEPT !.priceType = "per_model", !.flatPriceSats = Undefined,
                   !.modelPrices = modelPrices,
                   !.models = PricedNames(modelPrices) \ {"_default"},
                   !.defaultModel = FirstModel(PricedNames(modelPrices) \ {"_default"})]

EpResponses == Endpoint(PathResponses, "POST", "json", "", 30)
EpResponsesRepriced == Endpoint(PathResponses, "POST", "json", "", 50)
EpChat == Endpoint(PathChat, "POST", "json", "", 20)
EpImagesGen == Endpoint(PathImagesGen, "POST", "json", "", 120)
EpImagesEdit == Endpoint(PathImagesEdit, "POST", "multipart", "image", 150)
EpTranscribe == Endpoint(PathTranscribe, "POST", "multipart", "file", 21)
EpTranslate == Endpoint(PathTranslate, "POST", "multipart", "file", 21)
EpVideo == Endpoint(PathVideo, "POST", "json", "", 3000)
EpModerations == Endpoint(PathModerations, "POST", "json", "", 5)
EpModelsGet == Endpoint(<<"v1", "models">>, "GET", "json", "", 0)

\* CatalogState.endpoints for the catalogs the provider may return; each list is
\* sorted by (path, method) as normalizeCatalog leaves it.
CatResponses == <<EpResponses>>
CatRepriced == <<EpResponsesRepriced>>
CatImages == <<EpImagesGen, EpResponses>>
CatText == <<EpChat, EpResponses>>
CatAudio == <<EpTranscribe, EpTranslate, EpModerations, EpModelsGet, EpVideo>>

Catalogs == {CatResponses, CatRepriced, CatImages, CatText, CatAudio}

\* ----------------------------------------------------- configuration

\* AlbomConfig, reduced to the fields tool synthesis reads.
Config(profile, video, moderation, embeddings, raw) ==
  [toolProfile |-> profile, includeVideo |-> video,
   includeModeration |-> moderation, includeEmbeddings |-> embeddings,
   allowRawTool |-> raw]

\* The configurations checked: each profile with its loadConfig defaults, and a
\* full profile without video and embeddings but with moderation and the raw
\* tool.
Configs == {Config("compact", TRUE, FALSE, FALSE, FALSE),
            Config("full", TRUE, TRUE, TRUE, FALSE),
            Config("full", FALSE, TRUE, FALSE, TRUE)}

\* ------------------------------------------------ tool synthesis (dedup.ts)

\* String.prototype.toLowerCase on the HTTP methods the catalogs use.
toLowerCase(s) == CASE s = "POST" -> "post"
                    [] s = "GET" -> "get"
                    [] OTHER -> s

\* What sanitizeToolName leaves of one "_"-joined piece: a piece breaks at
\* every run of characters outside [a-z0-9_], which become "_", and at "_".
SanitizedPiece(piece) ==
  CASE piece = "" -> <<>>
    [] piece \in {"images-edits", "images_edits", "images.edits"} -> <<"images", "edits">>
    [] piece = "raw_call" -> <<"raw", "call">>
    [] OTHER -> <<toLowerCase(piece)>>

\* sanitizeToolName on a name kept as its "_"-joined pieces: leading, trailing
\* and doubled underscores disappear, which drops the empty pieces.
RECURSIVE sanitizeToolName(_)
sanitizeToolName(pieces) ==
  IF pieces = <<>> THEN <<>>
  ELSE SanitizedPiece(Head(pieces)) \o sanitizeToolName(Tail(pieces))

\* ToolAnnotations; a hint left out is undefined.
Annotations(readOnlyHint, idempotentHint, destructiveHint, openWorldHint) ==
  [readOnlyHint |-> readOnlyHint, idempotentHint |-> idempotentHint,
   destructiveHint |-> destructiveHint, openWorldHint |-> openWorldHint]
READ_ONLY_ANNOTATION == Annotations(Some(TRUE), Some(TRUE), Some(FALSE), Some(FALSE))
DEFAULT_ANNOTATION == Annotations(Undefined, Undefined, Some(FALSE), Some(TRUE))

\* What a tool shows the host besides its name: title, description, annotations.
Shown(title, description, annotations) ==
  [title |-> title, description |-> description, annotations |-> annotations]

\* A PlannedTool: the five fields of its identity, and the fields the
\* signature leaves out: fileField, title, description and annotations.
Tool(kind, name, endpointPath, translationEndpointPath, contentType, fileField, shown) ==
  [kind |-> kind, name |-> name, endpointPath |-> endpointPath,
   translationEndpointPath |-> translationEndpointPath,
   contentType |-> contentType, fileField |-> fileField,
   title |-> shown.title, description |-> shown.description,
   annotations |-> shown.annotations]

\* A lookup that does not ask for the method.
endpointByPath_AnyMethod(catalog, path) ==
  LET hits == SelectSeq(catalog, LAMBDA e : e.path = path)
  IN IF hits = <<>> THEN Undefined ELSE Some(hits[1])

endpointByPath(catalog, path) ==
  LET hits == SelectSeq(catalog, LAMBDA e : e.path = path /\ e.method = "POST")
  IN IF hits = <<>> THEN Undefined ELSE Some(hits[1])

\* path === "/v1/responses" || path.startsWith("/v1/chat/")
isTextPath(path) ==
  path = PathResponses \/ (Len(path) >= 3 /\ path[1] = "v1" /\ path[2] = "chat")

\* modelSetJaccard: the quotient intersection / union kept as the pair of its
\* terms; 1 for two empty sets.
modelSetJaccard(a, b) ==
  IF a = {} /\ b = {} THEN <<1, 1>>
  ELSE <<Cardinality(a \cap b), Cardinality(a \cup b)>>

\* jaccard >= 0.95
AtLeastThreshold(jaccard) == 100 * jaccard[1] >= 95 * jaccard[2]

isDuplicateCandidate(a, b) ==
  LET sameMethod == a.method = b.method
      sameContentType == a.contentType = b.contentType
      jaccard == modelSetJaccard(a.models, b.models)
      sameFamily == a.family = b.family \/ (isTextPath(a.path) /\ isTextPath(b.path))
  IN sameMethod /\ sameContentType /\ sameFamily /\ AtLeastThreshold(jaccard)

\* A choice that keeps the chat endpoint whenever it exists.
chooseCompactTextEndpoint_ChatFirst(catalog) ==
  LET responses == endpointByPath(catalog, PathResponses)
      chat == endpointByPath(catalog, PathChat)
  IN IF IsDefined(chat) THEN chat ELSE responses

chooseCompactTextEndpoint(catalog) ==
  LET responses == endpointByPath(catalog, PathResponses)
      chat == endpointByPath(catalog, PathChat)
  IN IF ~IsDefined(responses) THEN chat
     ELSE IF ~IsDefined(chat) THEN responses
     ELSE IF isDuplicateCandidate(chat[1], responses[1]) THEN responses
     ELSE responses

CatalogGetTool ==
  Tool("catalog_get", <<"albom", "catalog", "get">>, Undefined, Undefined, "", "",
       Shown(Str("Get ALBOM Catalog"),
             Str("Get normalized ALBOM catalog data and derived tool summary."),
             READ_ONLY_ANNOTATION))
RawCallTool ==
  Tool("raw_call", <<"albom", "raw", "call">>, Undefined, Undefined, "", "",
       Shown(Str("Raw ALBOM Call"),
             Str("Raw allowlisted endpoint caller for advanced use only."),
             DEFAULT_ANNOTATION))

\* The tool a compact-profile lookup contributes: none when the endpoint is absent.
CompactTool(found, kind, name, shown) ==
  IF IsDefined(found)
  THEN <<Tool(kind, name, Some(found[1].path), Undefined, "", "", shown)>>
  ELSE <<>>

makeCompactTools(catalog, cfg) ==
  LET textEndpoint == chooseCompactTextEndpoint(catalog)
      audioTranscribe == endpointByPath(catalog, PathTranscribe)
      translation == endpointByPath(catalog, PathTranslate)
  IN <<CatalogGetTool>>
     \o CompactTool(textEndpoint, "text_generate", <<"albom", "text", "generate">>,
                    Shown(Str("Text Generation"),
                          IF IsDefined(textEndpoint)
                          THEN <<"Generate text responses via ">> \o textEndpoint[1].path \o <<".">>
                          ELSE EmptyString,
                          DEFAULT_ANNOTATION))
     \o CompactTool(endpointByPath(catalog, PathImagesGen), "image_generate",
                    <<"albom", "image", "generate">>,
                    Shown(Str("Image Generation"), Str("Generate new images from text prompts."),
                          DEFAULT_ANNOTATION))
     \o CompactTool(endpointByPath(catalog, PathImagesEdit), "image_edit",
                    <<"albom", "image", "edit">>,
                    Shown(Str("Image Edit"), Str("Edit an input image with prompt instructions."),
                          DEFAULT_ANNOTATION))
     \o (IF IsDefined(audioTranscribe)
         THEN <<Tool("audio_transcribe", <<"albom", "audio", "transcribe">>,
                     Some(audioTranscribe[1].path),
                     IF IsDefined(translation) THEN Some(translation[1].path) ELSE Undefined,
                     "", "",
                     Shown(Str("Audio Transcribe"),
                           Str("Transcribe audio. Set translate_to_english=true to route to translation."),
                           DEFAULT_ANNOTATION))>>
         ELSE <<>>)
     \o CompactTool(endpointByPath(catalog, PathSpeech), "audio_speech",
                    <<"albom", "audio", "speech">>,
                    Shown(Str("Audio Speech"), Str("Synthesize speech from text input."),
                          DEFAULT_ANNOTATION))
     \o (IF cfg.includeVideo
         THEN CompactTool(endpointByPath(catalog, PathVideo), "video_generate",
                          <<"albom", "video", "generate">>,
                          Shown(Str("Video Generation"),
                                Str("Generate videos from text prompts. This endpoint can be expensive."),
                                [DEFAULT_ANNOTATION EXCEPT !.idempotentHint = Some(FALSE)]))
         ELSE <<>>)
     \o (IF cfg.includeModeration
         THEN CompactTool(endpointByPath(catalog, PathModerations), "safety_moderate",
                          <<"albom", "safety", "moderate">>,
                          Shown(Str("Safety Moderate"),
                                Str("Classify text content with moderation models."),
                                READ_ONLY_ANNOTATION))
         ELSE <<>>)
     \o (IF cfg.includeEmbeddings
         THEN CompactTool(endpointByPath(catalog, PathEmbeddings), "embedding_create",
                          <<"albom", "embedding", "create">>,
                          Shown(Str("Embedding Create"), Str("Generate embeddings for text input."),
                                READ_ONLY_ANNOTATION))
         ELSE <<>>)
     \o (IF cfg.allowRawTool THEN <<RawCallTool>> ELSE <<>>)

\* A filter that ignores the flags.
shouldIncludeFullEndpoint_Always(endpoint, cfg) == TRUE

shouldIncludeFullEndpoint(endpoint, cfg) ==
  /\ ~(~cfg.includeVideo /\ endpoint.path = PathVideo)
  /\ ~(~cfg.includeModeration /\ endpoint.path = PathModerations)
  /\ ~(~cfg.includeEmbeddings /\ endpoint.path = PathEmbeddings)

fullToolName(profileApi, endpointPath) ==
  sanitizeToolName(<<"albom", profileApi>> \o SelectSeq(endpointPath, LAMBDA seg : seg # "" /\ seg # "v1"))

\* The loop of makeFullTools over catalog.endpoints[i..]: tools holds what was
\* pushed so far, whose names are the usedNames set.
RECURSIVE FullToolsFrom(_, _, _, _)
FullToolsFrom(catalog, cfg, i, tools) ==
  IF i > Len(catalog) THEN tools
  ELSE LET endpoint == catalog[i]
           usedNames == {tools[k].name : k \in 1..Len(tools)}
           base == fullToolName(endpoint.apiKey, endpoint.path)
           name == IF base \in usedNames
                   THEN sanitizeToolName(base \o <<toLowerCase(endpoint.method)>>)
                   ELSE base
       IN IF endpoint.method # "POST" \/ ~shouldIncludeFullEndpoint(endpoint, cfg)
          THEN FullToolsFrom(catalog, cfg, i + 1, tools)
          ELSE FullToolsFrom(catalog, cfg, i + 1,
                 Append(tools, Tool("full_endpoint", name, Some(endpoint.path), Undefined,
                                    endpoint.contentType, endpoint.fileField,
                                    Shown(<<endpoint.apiName, " ">> \o endpoint.path,
                                          endpoint.description, DEFAULT_ANNOTATION))))

makeFullTools(catalog, cfg) ==
  FullToolsFrom(catalog, cfg, 1, <<CatalogGetTool>>)
  \o (IF cfg.allowRawTool THEN <<RawCallTool>> ELSE <<>>)

\* JSON.stringify of a string, of an array and of an object member, as the
\* pieces of the text written.
JsonString(pieces) == <<"\"">> \o pieces \o <<"\"">>

RECURSIVE JsonItems(_, _)
JsonItems(items, k) ==
  IF k > Len(items) THEN <<>>
  ELSE (IF k > 1 THEN <<",">> ELSE <<>>) \o items[k] \o JsonItems(items, k + 1)
JsonArray(items) == <<"[">> \o JsonItems(items, 1) \o <<"]">>

\* The keys of the signature's objects in the order localeCompare sorts them.
KeyOrder ==
  <<"contentType", "endpointPath", "kind", "name", "profile", "tools",
    "translationEndpointPath">>

\* stableStringify of an object whose values are strings or arrays, given as
\* the JSON text of each value: the entries sorted by key, the keys whose
\* value is undefined left out by JSON.stringify.
stableStringify(object) ==
  LET keys == SelectSeq(KeyOrder, LAMBDA key : key \in DOMAIN object /\ IsDefined(object[key]))
  IN <<"{">>
     \o JsonItems([k \in 1..Len(keys) |-> JsonString(<<keys[k]>>) \o <<":">> \o object[keys[k]][1]], 1)
     \o <<"}">>

\* The JSON text of an optional string.
JsonOptional(value) == IF IsDefined(value) THEN Some(JsonString(value[1])) ELSE Undefined

\* A signature that also covers the file field of a tool.
buildToolSignature_WithFileField(profile, tools) ==
  stableStringify(
    [profile |-> Some(JsonString(<<profile>>)),
     tools |-> Some(JsonArray(
       [k \in 1..Len(tools) |->
          stableStringify(
            [kind |-> Some(JsonString(<<tools[k].kind>>)),
             name |-> Some(JsonString(tools[k].name)),
             endpointPath |-> JsonOptional(tools[k].endpointPath),
             translationEndpointPath |->
               IF tools[k].kind = "audio_transcribe"
               THEN JsonOptional(tools[k].translationEndpointPath) ELSE Undefined,
             contentType |->
               Some(JsonString(<<tools[k].contentType, tools[k].fileField>>))])]))])

\* sha256Hex(stableStringify({profile, tools: [...]})); the digest is kept as
\* the text it digests.
buildToolSignature(profile, tools) ==
  stableStringify(
    [profile |-> Some(JsonString(<<profile>>)),
     tools |-> Some(JsonArray(
       [k \in 1..Len(tools) |->
          stableStringify(
            [kind |-> Some(JsonString(<<tools[k].kind>>)),
             name |-> Some(JsonString(tools[k].name)),
             endpointPath |-> JsonOptional(tools[k].endpointPath),
             translationEndpointPath |->
               IF tools[k].kind = "audio_transcribe"
               THEN JsonOptional(tools[k].translationEndpointPath) ELSE Undefined,
             contentType |->
               IF tools[k].kind = "full_endpoint"
               THEN Some(JsonString(<<tools[k].contentType>>)) ELSE Undefined])]))])

buildToolState(catalog, cfg) ==
  LET tools == IF cfg.toolProfile = "compact" THEN makeCompactTools(catalog, cfg)
               ELSE makeFullTools(catalog, cfg)
  IN [profile |-> cfg.toolProfile, tools |-> tools,
      signature |-> buildToolSignature(cfg.toolProfile, tools)]

ToolNames(ts) == {ts.tools[k].name : k \in 1..Len(ts.tools)}

\* The model-price map of an endpoint that prices the first n names of
\* ModelOrder after the two gpt names, and "_default".
PricesOfFirst(n, price) ==
  [k \in 1..n |-> <<ModelOrder[k + 2], price>>] \o << <<"_default", price>> >>

\* The endpoints catalogs are drawn from, in the (path, method) order
\* normalizeCatalog sorts them into.
EndpointPool ==
  <<EpTranscribe,
    EpTranslate,
    [Endpoint(<<"v1", "call">>, "POST", "json", "", 9) EXCEPT !.apiKey = "raw"],
    PerModel(EpChat, PricesOfFirst(19, 20)),
    PerModel(EpChat, << <<"m21", 25>>, <<"_default", 25>> >>),
    Endpoint(PathEmbeddings, "POST", "json", "", 2),
    [Endpoint(<<"v1", "get">>, "POST", "json", "", 1) EXCEPT !.apiKey = "catalog"],
    Endpoint(<<"v1", "images_edits">>, "POST", "multipart", "image", 150),
    Endpoint(<<"v1", "images-edits">>, "POST", "multipart", "image", 150),
    PerModel(EpImagesEdit, PricesOfFirst(5, 150)),
    PerModel(EpImagesGen, PricesOfFirst(6, 120)),
    EpModelsGet,
    EpModerations,
    PerModel(EpResponses, PricesOfFirst(20, 30)),
    EpVideo>>

\* The endpoints of the pool at the positions in chosen, in the pool's order.
PoolInSortOrder(chosen) ==
  [k \in 1..Cardinality(chosen) |->
     EndpointPool[CHOOSE i \in chosen : Cardinality({j \in chosen : j < i}) = k - 1]]

\* The comparator of normalizeCatalog's sort returns 0 for the two endpoints.
SameSortKey(a, b) == a.path = b.path /\ a.method = b.method

\* CatalogState.endpoints of the documents that list the chosen endpoints: the
\* sort orders them by (path, method) and, being stable, leaves two endpoints
\* with the same path and method in the order the document lists them, which
\* is either one.
PoolCatalogs(chosen) ==
  LET sorted == PoolInSortOrder(chosen)
      ties == {k \in 1..(Len(sorted) - 1) : SameSortKey(sorted[k], sorted[k + 1])}
  IN {sorted} \cup {[sorted EXCEPT ![k] = sorted[k + 1], ![k + 1] = sorted[k]] : k \in ties}

\* What a catalog refresh may change in one endpoint without moving it in the
\* sorted list: its prices, its file field, its description, the name of its
\* api, its content type, or the key of its api.
ChangeKinds == {"price", "fileField", "description", "apiName", "contentType", "apiKey"}
ChangedEndpoint(endpoint, kind) ==
  CASE kind = "price" ->
         IF endpoint.priceType = "flat"
         THEN [endpoint EXCEPT !.flatPriceSats = Some(endpoint.flatPriceSats[1] + 1)]
         ELSE [endpoint EXCEPT !.modelPrices =
                 [k \in DOMAIN endpoint.modelPrices |->
                    <<endpoint.modelPrices[k][1], endpoint.modelPrices[k][2] + 1>>]]
    [] kind = "fileField" -> [endpoint EXCEPT !.fileField = "attachment"]
    [] kind = "description" -> [endpoint EXCEPT !.description = Str("Reworded")]
    [] kind = "apiName" -> [endpoint EXCEPT !.apiName = "Renamed"]
    [] kind = "contentType" ->
         [endpoint EXCEPT !.contentType = IF endpoint.contentType = "json" THEN "multipart"
                                          ELSE "json"]
    [] kind = "apiKey" -> [endpoint EXCEPT !.apiKey = "other"]

\* The catalog without its i-th endpoint.
WithoutEndpoint(catalog, i) ==
  SubSeq(catalog, 1, i - 1) \o SubSeq(catalog, i + 1, Len(catalog))

\* What buildToolState was called with and returned, kept for the next call.
Previous(catalog, cfg, built) ==
  [catalog |-> catalog, config |-> cfg, toolState |-> built]

\* buildToolState is handed any catalog of up to MaxToolEndpoints endpoints and
\* any configuration of the profile and the four flags.
SynthesisInit ==
  /\ \E chosen \in SUBSET (1..Len(EndpointPool)) :
       /\ Cardinality(chosen) <= MaxToolEndpoints
       /\ sCatalog \in PoolCatalogs(chosen)
  /\ \E profile \in {"compact", "full"}, video \in BOOLEAN, moderation \in BOOLEAN,
        embeddings \in BOOLEAN, raw \in BOOLEAN :
       sConfig = Config(profile, video, moderation, embeddings, raw)
  /\ sToolState = Undefined
  /\ sPrevious = Undefined

BuildToolState ==
  /\ sToolState = Undefined
  /\ sToolState' = Some(buildToolState(sCatalog, sConfig))
  /\ UNCHANGED <<sCatalog, sConfig, sPrevious>>

\* buildToolState is called again with a refreshed catalog, which differs from
\* the one last built from in one field of one endpoint, or lacks one of its
\* endpoints, or is the same.
CatalogChanges ==
  /\ IsDefined(sToolState)
  /\ sPrevious = Undefined
  /\ Len(sCatalog) <= MaxRebuiltEndpoints
  /\ \/ \E i \in 1..Len(sCatalog), kind \in ChangeKinds :
          sCatalog' = [sCatalog EXCEPT ![i] = ChangedEndpoint(sCatalog[i], kind)]
     \/ \E i \in 1..Len(sCatalog) : sCatalog' = WithoutEndpoint(sCatalog, i)
     \/ sCatalog' = sCatalog
  /\ sPrevious' = Some(Previous(sCatalog, sConfig, sToolState[1]))
  /\ sToolState' = Some(buildToolState(sCatalog', sConfig))
  /\ UNCHANGED sConfig

\* buildToolState is called again with the same catalog and the other profile.
ProfileChanges ==
  /\ IsDefined(sToolState)
  /\ sPrevious = Undefined
  /\ Len(sCatalog) <= MaxRebuiltEndpoints
  /\ sConfig' = [sConfig EXCEPT !.toolProfile = IF @ = "compact" THEN "full" ELSE "compact"]
  /\ sPrevious' = Some(Previous(sCatalog, sConfig, sToolState[1]))
  /\ sToolState' = Some(buildToolState(sCatalog, sConfig'))
  /\ UNCHANGED sCatalog

\* ---------------------------------------- tool registry (tools/registry.ts)

\* What a handle's remove() and server.registerTool do to the host's name set.
RECURSIVE ApplyHostOps(_, _)
ApplyHostOps(host, ops) ==
  IF ops = <<>> THEN host
  ELSE ApplyHostOps(IF Head(ops)[1] = "register" THEN host \cup {Head(ops)[2]}
                    ELSE host \ {Head(ops)[2]},
                    Tail(ops))

RemoveOps(handles) == [k \in 1..Len(handles) |-> <<"remove", handles[k]>>]
RegisterOps(ts) == [k \in 1..Len(ts.tools) |-> <<"register", ts.tools[k].name>>]

\* A comparison that always reports a change.
SignatureChanged_Always(stored, next) == TRUE

\* this.toolState?.signature !== nextToolState.signature
SignatureChanged(stored, next) ==
  (IF IsDefined(stored) THEN Some(stored[1].signature) ELSE Undefined) # Some(next.signature)

\* A notification test that does not ask whether a ToolState was stored before.
ShouldNotify_FirstSyncToo(emitNotification, hadPreviousToolState, isConnected) ==
  emitNotification /\ isConnected

\* A notification test that forgets to ask whether the host is connected.
ShouldNotify_Unconnected(emitNotification, hadPreviousToolState, isConnected) ==
  emitNotification /\ hadPreviousToolState

\* options.emitNotification && hadPreviousToolState && this.server.isConnected()
ShouldNotify(emitNotification, hadPreviousToolState, isConnected) ==
  emitNotification /\ hadPreviousToolState /\ isConnected

\* A replacement that registers the new tools without removing the old handles.
replaceRegisteredTools_NoRemove(handles, nextToolState) ==
  [ops |-> RegisterOps(nextToolState),
   handles |-> [k \in 1..Len(nextToolState.tools) |-> nextToolState.tools[k].name]]

\* replaceRegisteredTools: the host calls it makes, in order, and the handles it keeps.
replaceRegisteredTools(handles, nextToolState) ==
  [ops |-> RemoveOps(handles) \o RegisterOps(nextToolState),
   handles |-> [k \in 1..Len(nextToolState.tools) |-> nextToolState.tools[k].name]]

\* A dispose that drops the handle list without calling remove() on the handles.
dispose_ForgetOnly(handles) ==
  [ops |-> <<>>, handles |-> <<>>]

\* dispose: the host calls it makes, in order, and the handles it keeps.
dispose(handles) ==
  [ops |-> RemoveOps(handles), handles |-> <<>>]

\* An initialize that asks for the notification.
InitializeOptions_Notifying == [forceRefresh |-> TRUE, emitNotification |-> TRUE]

\* The options initialize() passes to syncTools.
InitializeOptions == [forceRefresh |-> TRUE, emitNotification |-> FALSE]

Snapshot == [toolState |-> toolState, catalogState |-> catalogState,
             registeredTools |-> registeredTools, hostTools |-> hostTools,
             toolListChangedCount |-> toolListChangedCount, connected |-> connected]

NoCall == [forceRefresh |-> FALSE, emitNotification |-> FALSE, init |-> FALSE, refresh |-> FALSE]

Last(op, call, ret, next, ops) ==
  [op |-> op, call |-> call, ret |-> ret, next |-> next, ops |-> ops, pre |-> Snapshot]

RegInit ==
  /\ config \in Configs
  /\ toolState = Undefined
  /\ catalogState = Undefined
  /\ registeredTools = <<>>
  /\ hostTools = {}
  /\ connected \in BOOLEAN
  /\ toolListChangedCount = 0
  /\ inflight = <<>>
  /\ started = 0
  /\ last = Last("none", NoCall, FALSE, Undefined, <<>>)

\* syncTools up to its await: catalogProvider.getState({refresh: options.forceRefresh}).
StartSync(options, init) ==
  /\ Len(inflight) < MaxInflight
  /\ started < MaxSyncCalls
  /\ inflight' = Append(inflight, [forceRefresh |-> options.forceRefresh,
                                    emitNotification |-> options.emitNotification,
                                    init |-> init,
                                    refresh |-> options.forceRefresh])
  /\ started' = started + 1
  /\ last' = Last("call", NoCall, FALSE, Undefined, <<>>)
  /\ UNCHANGED <<config, toolState, catalogState, registeredTools, hostTools, connected,
                 toolListChangedCount>>

initialize == StartSync(InitializeOptions, TRUE)

syncTools ==
  \E forceRefresh \in BOOLEAN, emitNotification \in BOOLEAN :
    StartSync([forceRefresh |-> forceRefresh, emitNotification |-> emitNotification], FALSE)

\* buildToolState for each catalog the provider may return and each
\* configuration, computed once.
BuiltToolStates ==
  [catalog \in Catalogs |-> [cfg \in Configs |-> buildToolState(catalog, cfg)]]

\* syncTools from the point its getState promise resolves with a CatalogState.
SyncResolve ==
  \E i \in 1..Len(inflight), catalog \in Catalogs :
    LET call == inflight[i]
        nextToolState == BuiltToolStates[catalog][config]
        changed == SignatureChanged(toolState, nextToolState)
        replaced == replaceRegisteredTools(registeredTools, nextToolState)
        hadPreviousToolState == IsDefined(toolState)
        notify == ShouldNotify(call.emitNotification, hadPreviousToolState, connected)
    IN /\ inflight' = RemoveAt(inflight, i)
       /\ catalogState' = Some(catalog)
       /\ IF ~changed
          THEN /\ last' = Last("sync", call, FALSE, Some(nextToolState), <<>>)
               /\ UNCHANGED <<toolState, registeredTools, hostTools, toolListChangedCount>>
          ELSE /\ registeredTools' = replaced.handles
               /\ hostTools' = ApplyHostOps(hostTools, replaced.ops)
               /\ toolState' = Some(nextToolState)
               /\ toolListChangedCount' = toolListChangedCount + (IF notify THEN 1 ELSE 0)
               /\ last' = Last("sync", call, TRUE, Some(nextToolState), replaced.ops)
       /\ UNCHANGED <<config, connected, started>>

\* A rejected sync that forgets the stored ToolState.
SyncReject_DropsToolState ==
  \E i \in 1..Len(inflight) :
    /\ inflight' = RemoveAt(inflight, i)
    /\ last' = Last("reject", inflight[i], FALSE, Undefined, <<>>)
    /\ toolState' = Undefined
    /\ UNCHANGED <<config, catalogState, registeredTools, hostTools, connected,
                   toolListChangedCount, started>>

\* syncTools when its getState promise rejects: the rejection propagates.
SyncReject ==
  \E i \in 1..Len(inflight) :
    /\ inflight' = RemoveAt(inflight, i)
    /\ last' = Last("reject", inflight[i], FALSE, Undefined, <<>>)
    /\ UNCHANGED <<config, toolState, catalogState, registeredTools, hostTools, connected,
                   toolListChangedCount, started>>

\* The refreshCatalog closure replaceRegisteredTools hands to the executor, run
\* by a call of albom_catalog_get with refresh true, from the point its getState
\* promise resolves: the catalog state is replaced, the tool state and the
\* handles are kept. The closure exists once an executor has been built, and a
\* call of it made before a dispose may resolve after it. Up to its await, and
\* when getState rejects, the closure writes nothing.
refreshCatalog ==
  \E refreshed \in Catalogs :
    /\ IsDefined(toolState)
    /\ catalogState' = Some(refreshed)
    /\ last' = Last("refresh", NoCall, FALSE, Undefined, <<>>)
    /\ UNCHANGED <<config, toolState, registeredTools, hostTools, connected,
                   toolListChangedCount, inflight, started>>

Dispose ==
  LET disposed == dispose(registeredTools)
  IN /\ registeredTools' = disposed.handles
     /\ hostTools' = ApplyHostOps(hostTools, disposed.ops)
     /\ last' = Last("dispose", NoCall, FALSE, Undefined, disposed.ops)
     /\ UNCHANGED <<config, toolState, catalogState, connected, toolListChangedCount,
                    inflight, started>>

\* The host transport connects or closes.
ServerConnect ==
  /\ ~connected
  /\ connected' = TRUE
  /\ last' = Last("connect", NoCall, FALSE, Undefined, <<>>)
  /\ UNCHANGED <<config, toolState, catalogState, registeredTools, hostTools,
                 toolListChangedCount, inflight, started>>

ServerClose ==
  /\ connected
  /\ connected' = FALSE
  /\ last' = Last("close", NoCall, FALSE, Undefined, <<>>)
  /\ UNCHANGED <<config, toolState, catalogState, registeredTools, hostTools,
                 toolListChangedCount, inflight, started>>

\* ------------------------------------------ catalog manager (catalog.ts)

\* What a fetchAndNormalize run yields when fetchCatalog resolves.
FetchedCatalogs == {CatResponses, CatRepriced}

\* shouldRefresh of getState
shouldRefresh(refresh, state, lastFetchMs, now, ttlMs) ==
  refresh \/ ~IsDefined(state) \/ now - lastFetchMs > ttlMs

\* A getState that starts a fetch of its own whenever it needs a refresh.
getStatePath_NeverJoins(refresh, state, lastFetchMs, now, ttlMs, inflightPromise) ==
  IF ~shouldRefresh(refresh, state, lastFetchMs, now, ttlMs) /\ IsDefined(state)
  THEN "cached"
  ELSE "fetch"

\* getState: which of its three returns is taken.
getStatePath(refresh, state, lastFetchMs, now, ttlMs, inflightPromise) ==
  IF ~shouldRefresh(refresh, state, lastFetchMs, now, ttlMs) /\ IsDefined(state)
  THEN "cached"
  ELSE IF IsDefined(inflightPromise) THEN "join"
  ELSE "fetch"

\* A settled promise's outcome: the CatalogState, or a rejection.
Fulfilled(state) == [ok |-> TRUE, state |-> Some(state)]
Rejected == [ok |-> FALSE, state |-> Undefined]

ManagerInit ==
  /\ gTtlMs \in {1, 2}
  /\ gState = Undefined
  /\ gLastFetchMs = 0
  /\ gInflight = Undefined
  /\ gNow = 0
  /\ gFetches = <<>>
  /\ gCalls = <<>>

\* getState({refresh}) up to its return: a cached state, the in-flight
\* promise, or a new fetchAndNormalize whose promise becomes the in-flight one.
GetState ==
  \E refresh \in BOOLEAN :
    LET path == getStatePath(refresh, gState, gLastFetchMs, gNow, gTtlMs, gInflight)
        needed == shouldRefresh(refresh, gState, gLastFetchMs, gNow, gTtlMs)
        call(fetch, result) ==
          [refresh |-> refresh, needed |-> needed, saw |-> gInflight, path |-> path,
           fetch |-> fetch, result |-> result]
    IN /\ Len(gCalls) < MaxGetStateCalls
       /\ CASE path = "cached" ->
                 /\ gCalls' = Append(gCalls, call(0, Some(Fulfilled(gState[1]))))
                 /\ UNCHANGED <<gInflight, gFetches>>
            [] path = "join" ->
                 /\ gCalls' = Append(gCalls, call(gInflight[1], Undefined))
                 /\ UNCHANGED <<gInflight, gFetches>>
            [] OTHER ->
                 /\ gFetches' = Append(gFetches, [status |-> "pending", outcome |-> Undefined])
                 /\ gInflight' = Some(Len(gFetches) + 1)
                 /\ gCalls' = Append(gCalls, call(Len(gFetches) + 1, Undefined))
       /\ UNCHANGED <<gTtlMs, gState, gLastFetchMs, gNow>>

\* fetchCatalog resolves: normalizeCatalog, this.state and this.lastFetchMs.
CatalogFetchResolves ==
  \E f \in 1..Len(gFetches), catalog \in FetchedCatalogs :
    /\ gFetches[f].status = "pending"
    /\ gState' = Some(catalog)
    /\ gLastFetchMs' = gNow
    /\ gFetches' = [gFetches EXCEPT ![f] = [status |-> "settled", outcome |-> Some(Fulfilled(catalog))]]
    /\ UNCHANGED <<gTtlMs, gInflight, gNow, gCalls>>

\* fetchCatalog rejects (network failure, timeout, non-2xx, invalid catalog).
CatalogFetchRejects ==
  \E f \in 1..Len(gFetches) :
    /\ gFetches[f].status = "pending"
    /\ gFetches' = [gFetches EXCEPT ![f] = [status |-> "settled", outcome |-> Some(Rejected)]]
    /\ UNCHANGED <<gTtlMs, gState, gLastFetchMs, gInflight, gNow, gCalls>>

\* The finally callback of a settled fetchAndNormalize: this.inflight is
\* cleared. The promise finally() returned, which the callers hold, has not
\* settled yet.
InflightFinally ==
  \E f \in 1..Len(gFetches) :
    /\ gFetches[f].status = "settled"
    /\ gFetches' = [gFetches EXCEPT ![f].status = "cleared"]
    /\ gInflight' = Undefined
    /\ UNCHANGED <<gTtlMs, gState, gLastFetchMs, gNow, gCalls>>

\* The promise finally() returned settles, some turns after its callback ran:
\* every caller holding that promise receives the outcome of the fetch.
InflightSettles ==
  \E f \in 1..Len(gFetches) :
    /\ gFetches[f].status = "cleared"
    /\ gFetches' = [gFetches EXCEPT ![f].status = "delivered"]
    /\ gCalls' = [k \in 1..Len(gCalls) |->
                    IF gCalls[k].fetch = f
                    THEN [gCalls[k] EXCEPT !.result = gFetches[f].outcome]
                    ELSE gCalls[k]]
    /\ UNCHANGED <<gTtlMs, gState, gLastFetchMs, gInflight, gNow>>

\* Time passes.
ManagerTick ==
  /\ gNow < MaxClock
  /\ gNow' = gNow + 1
  /\ UNCHANGED <<gTtlMs, gState, gLastFetchMs, gInflight, gFetches, gCalls>>

\* --------------------------------------------- L402 challenge (l402.ts)

\* asString: a string of length > 0, else undefined.
asString(value) == IF IsDefined(value) /\ value[1] # EmptyString THEN value ELSE Undefined

\* A WWW-Authenticate header value: its scheme and its parameters, and the
\* order in which the macaroon= and token= parameters stand in the text.
WwwInOrder(scheme, order, macaroon, token, invoice) ==
  [scheme |-> scheme,
   params |-> [macaroon |-> macaroon, token |-> token, invoice |-> invoice, order |-> order]]

MacaroonFirst == <<"macaroon", "token">>
TokenFirst == <<"token", "macaroon">>

\* The header written with macaroon= before token=.
Www(scheme, macaroon, token, invoice) ==
  WwwInOrder(scheme, MacaroonFirst, macaroon, token, invoice)

\* extractParam on a WWW-Authenticate value kept as its scheme and parameters;
\* a parameter is absent (<<>>) or written name="value". A non-empty value is
\* what the quoted pattern captures. For name="" the quoted capture is empty,
\* so the unquoted pattern [^,\s]+ is tried, and it captures the two quote
\* characters themselves.
extractParam(params, name) ==
  IF params[name] = Some(EmptyString) THEN Some(<<"\"\"">>) ELSE params[name]

\* macaroon.endsWith(":") ? macaroon.slice(0, -1) : macaroon
stripTrailingColon(macaroon) ==
  IF macaroon # EmptyString /\ macaroon[Len(macaroon)] = ":"
  THEN SubSeq(macaroon, 1, Len(macaroon) - 1)
  ELSE macaroon

\* typeof value === "object" && value !== null, on parsed response data.
isRecord(data) == data.kind \in {"object", "raw", "binary"}

NoBodyFields == [invoice |-> Undefined, payment_hash |-> Undefined, amount_sats |-> Undefined]

parseL402Challenge(headers, body) ==
  LET wwwAuth == headers.wwwAuthenticate
      params == wwwAuth[1].params
      named == extractParam(params, "macaroon")
      macaroon == IF IsDefined(named) THEN named ELSE extractParam(params, "token")
      bodyRecord == IF isRecord(body) THEN body.fields ELSE NoBodyFields
      fromHeader == extractParam(params, "invoice")
      invoice == IF IsDefined(fromHeader) THEN fromHeader ELSE asString(bodyRecord.invoice)
      paymentHash == asString(bodyRecord.payment_hash)
  IN IF ~IsDefined(wwwAuth) THEN Undefined
     ELSE IF wwwAuth[1].scheme \notin {"L402", "l402"} THEN Undefined
     ELSE IF ~IsDefined(macaroon) \/ macaroon[1] = EmptyString THEN Undefined
     ELSE IF ~IsDefined(invoice) \/ invoice[1] = EmptyString THEN Undefined
     ELSE Some([macaroon |-> stripTrailingColon(macaroon[1]),
                invoice |-> invoice[1],
                paymentHash |-> IF IsDefined(paymentHash) THEN paymentHash[1] ELSE EmptyString,
                amountSats |-> IF IsDefined(bodyRecord.amount_sats) THEN bodyRecord.amount_sats[1] ELSE 0])

\* The WWW-Authenticate values parseL402Challenge is handed: absent, another
\* scheme, or L402 (in either case) with each parameter absent, written with
\* an empty value, or written with a value.
ChallengeSchemes == {"L402", "l402", "Bearer"}
MacaroonParams == {Undefined, Some(EmptyString), Some(Str("mac_test")), Some(<<"mac_test", ":">>),
                   Some(<<":">>)}
TokenParams == {Undefined, Some(EmptyString), Some(Str("mac_simple"))}
InvoiceParams == {Undefined, Some(EmptyString), Some(Str("lnbc_header"))}
\* macaroon= written before token=, or after it
ParamOrders == {MacaroonFirst, TokenFirst}
ChallengeHeaders ==
  {[contentType |-> "application/json", wwwAuthenticate |-> www] :
     www \in {Undefined} \cup
       {Some(WwwInOrder(scheme, order, macaroon, token, invoice)) :
          scheme \in ChallengeSchemes, macaroon \in MacaroonParams, token \in TokenParams,
          invoice \in InvoiceParams, order \in ParamOrders}}

\* The bodies it is handed: JSON objects with each field absent or present,
\* and a body that is not an object.
ChallengeBodies ==
  {[kind |-> "object", fields |-> [invoice |-> invoice, payment_hash |-> hash,
                                   amount_sats |-> amount], of |-> "body"] :
     invoice \in {Undefined, Some(EmptyString), Some(Str("lnbc_body"))},
     hash \in {Undefined, Some(Str("ph_001"))},
     amount \in {Undefined, Some(30)}}
    \cup {[kind |-> "text", fields |-> NoBodyFields, of |-> "not an object"]}

ChallengeInit ==
  /\ lHeaders \in ChallengeHeaders
  /\ lBody \in ChallengeBodies
  /\ lResult = Undefined

ParseL402Challenge ==
  /\ lResult = Undefined
  /\ lResult' = Some([challenge |-> parseL402Challenge(lHeaders, lBody)])
  /\ UNCHANGED <<lHeaders, lBody>>

\* An Authorization value that puts the preimage before the macaroon.
buildL402Authorization_Swapped(macaroon, preimage) ==
  <<"L402 ">> \o preimage \o <<":">> \o macaroon

\* `L402 ${macaroon}:${preimage}`
buildL402Authorization(macaroon, preimage) ==
  <<"L402 ">> \o macaroon \o <<":">> \o preimage

\* ------------------------------------------ L402 token cache (l402.ts)

PaymentHashes == {Str("ph1"), Str("ph2"), Str("ph3")}

Challenge(macaroon, invoice, paymentHash, amountSats) ==
  [macaroon |-> macaroon, invoice |-> invoice, paymentHash |-> paymentHash,
   amountSats |-> amountSats]

\* The challenges set is called with: two different ones for ph1.
CacheChallenges ==
  {Challenge(Str("macA"), Str("lnbcA"), paymentHash, 10) : paymentHash \in PaymentHashes}
    \cup {Challenge(Str("macB"), Str("lnbcB"), Str("ph1"), 20)}

\* The ttlMs argument of set: left out, or given (0 included).
TtlArguments == {Undefined, Some(0)}

CacheOptions == [maxEntries : 1..MaxEntriesBound, defaultTtlMs : {2}]

CacheEntry(challenge, expiresAt) ==
  [macaroon |-> challenge.macaroon, invoice |-> challenge.invoice,
   paymentHash |-> challenge.paymentHash, amountSats |-> challenge.amountSats,
   expiresAt |-> expiresAt]

\* Map.prototype.has / get / delete / set on the entries in insertion order.
MapHas(entries, key) == \E i \in 1..Len(entries) : entries[i].paymentHash = key
MapGet(entries, key) ==
  IF MapHas(entries, key)
  THEN Some(entries[CHOOSE i \in 1..Len(entries) : entries[i].paymentHash = key])
  ELSE Undefined
MapDelete(entries, key) == SelectSeq(entries, LAMBDA e : e.paymentHash # key)
\* set on a key the Map holds replaces the value and keeps the key's position.
MapSet(entries, entry) ==
  IF MapHas(entries, entry.paymentHash)
  THEN [i \in 1..Len(entries) |->
          IF entries[i].paymentHash = entry.paymentHash THEN entry ELSE entries[i]]
  ELSE Append(entries, entry)

\* purgeExpired: every entry with now > expiresAt is deleted.
purgeExpired(entries, now) == SelectSeq(entries, LAMBDA e : ~(now > e.expiresAt))

\* An eviction that drops the newest entry.
evictOldest_Newest(entries) ==
  IF entries # <<>> THEN SubSeq(entries, 1, Len(entries) - 1) ELSE entries

\* entries.delete(entries.keys().next().value)
evictOldest(entries) == IF entries # <<>> THEN Tail(entries) ELSE entries

\* L402TokenCache.set
cacheSet(options, entries, now, challenge, ttlMs) ==
  LET purged == IF Len(entries) >= options.maxEntries
                THEN purgeExpired(entries, now) ELSE entries
      room == IF Len(purged) >= options.maxEntries THEN evictOldest(purged) ELSE purged
      ttl == IF IsDefined(ttlMs) THEN ttlMs[1] ELSE options.defaultTtlMs
  IN MapSet(room, CacheEntry(challenge, now + ttl))

\* A lookup that hands out whatever the Map holds.
cacheGet_NoExpiry(entries, now, paymentHash) ==
  [ret |-> MapGet(entries, paymentHash), entries |-> entries]

\* L402TokenCache.get: what it returns, and the entries it leaves.
cacheGet(entries, now, paymentHash) ==
  LET entry == MapGet(entries, paymentHash)
  IN IF ~IsDefined(entry) THEN [ret |-> Undefined, entries |-> entries]
     ELSE IF now > entry[1].expiresAt
     THEN [ret |-> Undefined, entries |-> MapDelete(entries, paymentHash)]
     ELSE [ret |-> entry, entries |-> entries]

NoChallenge == Challenge(EmptyString, EmptyString, EmptyString, 0)

CacheLast(op, challenge, ttlMs, ret) ==
  [op |-> op, challenge |-> challenge, ttlMs |-> ttlMs, ret |-> ret,
   pre |-> cEntries]

CacheInit ==
  /\ cOptions \in CacheOptions
  /\ cEntries = <<>>
  /\ cCleanupTimer = FALSE
  /\ cIntervals = 0
  /\ cNow = 0
  /\ cLast = [op |-> "none", challenge |-> NoChallenge, ttlMs |-> Undefined, ret |-> Undefined,
              pre |-> <<>>]

CacheSet ==
  \E challenge \in CacheChallenges, ttlMs \in TtlArguments :
    /\ cEntries' = cacheSet(cOptions, cEntries, cNow, challenge, ttlMs)
    /\ cLast' = CacheLast("set", challenge, ttlMs, Undefined)
    /\ UNCHANGED <<cOptions, cCleanupTimer, cIntervals, cNow>>

CacheGet ==
  \E paymentHash \in PaymentHashes :
    LET got == cacheGet(cEntries, cNow, paymentHash)
    IN /\ cEntries' = got.entries
       /\ cLast' = CacheLast("get", [NoChallenge EXCEPT !.paymentHash = paymentHash],
                             Undefined, got.ret)
       /\ UNCHANGED <<cOptions, cCleanupTimer, cIntervals, cNow>>

\* purgeExpired called directly.
CachePurgeExpired ==
  /\ cEntries' = purgeExpired(cEntries, cNow)
  /\ cLast' = CacheLast("purgeExpired", NoChallenge, Undefined, Undefined)
  /\ UNCHANGED <<cOptions, cCleanupTimer, cIntervals, cNow>>

\* A startCleanup without the guard on an existing timer.
startCleanup_Unguarded(cleanupTimer, intervals) ==
  [cleanupTimer |-> TRUE, intervals |-> intervals + 1]

\* startCleanup: returns when cleanupTimer is set, else setInterval.
startCleanup(cleanupTimer, intervals) ==
  IF cleanupTimer
  THEN [cleanupTimer |-> cleanupTimer, intervals |-> intervals]
  ELSE [cleanupTimer |-> TRUE, intervals |-> intervals + 1]

\* The timer half of dispose: clearInterval on the timer held, if any.
clearCleanup(cleanupTimer, intervals) ==
  IF cleanupTimer
  THEN [cleanupTimer |-> FALSE, intervals |-> intervals - 1]
  ELSE [cleanupTimer |-> FALSE, intervals |-> intervals]

CacheStartCleanup ==
  /\ cCleanupTimer' = startCleanup(cCleanupTimer, cIntervals).cleanupTimer
  /\ cIntervals' = startCleanup(cCleanupTimer, cIntervals).intervals
  /\ cLast' = CacheLast("startCleanup", NoChallenge, Undefined, Undefined)
  /\ UNCHANGED <<cOptions, cEntries, cNow>>

\* The interval timer of startCleanup fires.
CacheCleanupFires ==
  /\ cIntervals > 0
  /\ cEntries' = purgeExpired(cEntries, cNow)
  /\ cLast' = CacheLast("cleanup", NoChallenge, Undefined, Undefined)
  /\ UNCHANGED <<cOptions, cCleanupTimer, cIntervals, cNow>>

CacheDispose ==
  /\ cCleanupTimer' = clearCleanup(cCleanupTimer, cIntervals).cleanupTimer
  /\ cIntervals' = clearCleanup(cCleanupTimer, cIntervals).intervals
  /\ cEntries' = <<>>
  /\ cLast' = CacheLast("dispose", NoChallenge, Undefined, Undefined)
  /\ UNCHANGED <<cOptions, cNow>>

\* Time passes.
CacheTick ==
  /\ cNow < MaxClock
  /\ cNow' = cNow + 1
  /\ cLast' = CacheLast("tick", NoChallenge, Undefined, Undefined)
  /\ UNCHANGED <<cOptions, cEntries, cCleanupTimer, cIntervals>>

\* ------------------------------------------- HTTP client (httpClient.ts)

\* maxRetries values checked: 0 .. MaxRetriesBound
MaxRetriesBound == 2

\* A response as fetch resolves with it: status, headers (keys lower-cased) and
\* a body still to be read. The body is JSON text of an object ("object"), no
\* text at all ("empty") or text that is not JSON ("garbage").
Response(status, contentType, wwwAuthenticate, bodyKind, fields, id) ==
  [status |-> status,
   headers |-> [contentType |-> contentType, wwwAuthenticate |-> wwwAuthenticate],
   body |-> [kind |-> bodyKind, fields |-> fields, id |-> id]]

JsonResponse(status, id) == Response(status, "application/json", Undefined, "object", NoBodyFields, id)

Quote(invoice, paymentHash, amountSats) ==
  [invoice |-> Some(Str(invoice)), payment_hash |-> Some(Str(paymentHash)),
   amount_sats |-> Some(amountSats)]

Ok200 == JsonResponse(200, "ok")
Image200 == Response(200, "image/png", Undefined, "garbage", NoBodyFields, "png")
Bad400 == JsonResponse(400, "bad")
Unauthorized401 == JsonResponse(401, "unauthorized")
NotFound404 == Response(404, "text/plain", Undefined, "garbage", NoBodyFields, "notfound")
TooLarge413 == Response(413, "application/json", Undefined, "empty", NoBodyFields, "toolarge")
RateLimited429 == JsonResponse(429, "slow")
Error500 == Response(500, "application/json", Undefined, "garbage", NoBodyFields, "oops")
Unavailable503 == JsonResponse(503, "down")
\* 402 with `L402 macaroon="mac1", invoice="lnbc1"` and the quote in the body
Pay402 == Response(402, "application/json",
                   Some(Www("L402", Some(Str("mac1")), Undefined, Some(Str("lnbc1")))),
                   "object", Quote("lnbc1", "ph1", 30), "quote1")
\* 402 with `L402 token="mac2:"`, the invoice only in the body
Pay402Token == Response(402, "application/json",
                        Some(Www("L402", Undefined, Some(<<"mac2", ":">>), Undefined)),
                        "object", Quote("lnbc2", "ph2", 50), "quote2")
\* 402 without a WWW-Authenticate header
Pay402NoHeader == Response(402, "application/json", Undefined, "object", Quote("lnbc3", "ph3", 30), "quote3")
Responses == {Ok200, Image200, Bad400, Unauthorized401, NotFound404, TooLarge413,
              RateLimited429, Error500, Unavailable503,
              Pay402, Pay402Token, Pay402NoHeader}

\* What a rejected fetch throws: the timer's abort, or a network failure.
FetchErrors == {"AbortError", "TypeError"}

Preimages == {Str("pre1")}

\* A retry rule that treats every client error as transient.
isRetryableStatus_From400(status) == status >= 400

isRetryableStatus(status) == status = 429 \/ status >= 500

headersToRecord(headers) == headers

\* parseResponseData: the body as the caller gets it, by content type.
parseResponseData(response) ==
  LET contentType == response.headers.contentType
      body == response.body
  IN IF contentType = "application/json"
     THEN CASE body.kind = "empty" -> [kind |-> "object", fields |-> NoBodyFields, of |-> "{}"]
            [] body.kind = "object" -> [kind |-> "object", fields |-> body.fields, of |-> body.id]
            [] OTHER -> [kind |-> "raw", fields |-> NoBodyFields, of |-> body.id]
     ELSE IF contentType \in {"text/plain", "text/html"}
     THEN [kind |-> "text", fields |-> NoBodyFields, of |-> body.id]
     ELSE [kind |-> "binary", fields |-> NoBodyFields, of |-> body.id]

NoHeaders == [contentType |-> "", wwwAuthenticate |-> Undefined]
NoData == [kind |-> "none", fields |-> NoBodyFields, of |-> ""]

\* A NormalizedHttpResponse the call resolves with.
Normalized(status, headers, data) ==
  [kind |-> "response", status |-> status, headers |-> headers, data |-> data, code |-> ""]

\* An AlbomRuntimeError the call rejects with.
RuntimeError(code, status) ==
  [kind |-> "error", status |-> status, headers |-> NoHeaders, data |-> NoData, code |-> code]

\* if (x): undefined and the empty string are falsy.
Truthy(optString) == IsDefined(optString) /\ optString[1] # EmptyString

\* A resolution that looks at the bearer token before the caller's credentials.
resolveHeaders_BearerFirst(options, requestOptions) ==
  IF Truthy(options.bearerToken)
  THEN [ok |-> TRUE, authorization |-> Some(<<"Bearer ">> \o options.bearerToken[1])]
  ELSE IF IsDefined(requestOptions.l402Auth)
  THEN [ok |-> TRUE,
        authorization |-> Some(buildL402Authorization(requestOptions.l402Auth[1].macaroon,
                                                       requestOptions.l402Auth[1].preimage))]
  ELSE IF options.l402Handler \/ requestOptions.allowL402Quote
  THEN [ok |-> TRUE, authorization |-> Undefined]
  ELSE [ok |-> FALSE, authorization |-> Undefined]

\* A resolution that sends unauthenticated instead of failing.
resolveHeaders_NeverFails(options, requestOptions) ==
  IF IsDefined(requestOptions.l402Auth)
  THEN [ok |-> TRUE,
        authorization |-> Some(buildL402Authorization(requestOptions.l402Auth[1].macaroon,
                                                       requestOptions.l402Auth[1].preimage))]
  ELSE IF Truthy(options.bearerToken)
  THEN [ok |-> TRUE, authorization |-> Some(<<"Bearer ">> \o options.bearerToken[1])]
  ELSE [ok |-> TRUE, authorization |-> Undefined]

\* resolveHeaders: the Authorization header of the call, or ok = FALSE where it
\* throws missing_bearer_token.
resolveHeaders(options, requestOptions) ==
  IF IsDefined(requestOptions.l402Auth)
  THEN [ok |-> TRUE,
        authorization |-> Some(buildL402Authorization(requestOptions.l402Auth[1].macaroon,
                                                       requestOptions.l402Auth[1].preimage))]
  ELSE IF Truthy(options.bearerToken)
  THEN [ok |-> TRUE, authorization |-> Some(<<"Bearer ">> \o options.bearerToken[1])]
  ELSE IF options.l402Handler
  THEN [ok |-> TRUE, authorization |-> Undefined]
  ELSE IF requestOptions.allowL402Quote
  THEN [ok |-> TRUE, authorization |-> Undefined]
  ELSE [ok |-> FALSE, authorization |-> Undefined]


\* An auto-pay branch entered on every 402, handler or not.
Intercepts_Every402(status, options) == status = 402

\* response.status === 402 && this.options.l402Handler
Intercepts(status, options) == status = 402 /\ options.l402Handler

\* An auto-pay failure that surfaces the wallet's error.
AutoPayFailed_Throws(original) == RuntimeError("payment_failed", 502)

\* The inner catch: the original 402 as it was received.
AutoPayFailed(original) == Normalized(402, original.headers, original.data)

\* An outer catch that does not tell a timeout from other failures.
FailureError_AlwaysNetwork(errorName) == RuntimeError("network_error", 503)

\* The outer catch's error once no attempt is left.
FailureError(errorName) ==
  IF errorName = "AbortError" THEN RuntimeError("upstream_timeout", 504)
  ELSE RuntimeError("network_error", 503)

HttpOptions == [bearerToken : {Undefined, Some(EmptyString), Some(Str("tok"))},
                l402Handler : BOOLEAN,
                maxRetries : 0..MaxRetriesBound]

RequestOptionsSet == [allowL402Quote : BOOLEAN,
                      l402Auth : {Undefined, Some([macaroon |-> Str("macC"), preimage |-> Str("preC")])}]

NoCallYet == [method |-> "", requestOptions |-> [allowL402Quote |-> FALSE, l402Auth |-> Undefined],
              headers |-> [authorization |-> Undefined, contentType |-> Undefined]]

HttpInit ==
  /\ hOptions \in HttpOptions
  /\ hCall = NoCallYet
  /\ hPc = "idle"
  /\ hAttempt = 0
  /\ hFetches = <<>>
  /\ hHistory = <<>>
  /\ hResponse = Undefined
  /\ hOriginal = Undefined
  /\ hPaid = <<>>
  /\ hSleeps = <<>>
  /\ hReplay = Undefined
  /\ hResult = Undefined
  /\ hTimers = <<>>

maxAttempts == hOptions.maxRetries + 1

\* fetchWithTimeout up to its await: setTimeout arms a timer whose callback
\* aborts the request.
ArmTimer(timers) == Append(timers, "armed")

\* The finally of fetchWithTimeout, run when the fetch promise settles:
\* clearTimeout on the timer of the call.
ClearTimer(timers) == [timers EXCEPT ![Len(timers)] = "cleared"]

\* resolveHeaders, the method's content-type header, then requestWithRetries up
\* to the first fetch.
StartCall(method, requestOptions, contentType) ==
  LET resolved == resolveHeaders(hOptions, requestOptions)
      headers == [authorization |-> resolved.authorization, contentType |-> contentType]
  IN /\ hPc = "idle"
     /\ hCall' = [method |-> method, requestOptions |-> requestOptions, headers |-> headers]
     /\ IF resolved.ok
        THEN /\ hPc' = "fetching"
             /\ hFetches' = <<[headers |-> headers, replay |-> FALSE]>>
             /\ hTimers' = ArmTimer(hTimers)
             /\ UNCHANGED hResult
        ELSE /\ hPc' = "done"
             /\ hResult' = Some(RuntimeError("missing_bearer_token", 401))
             /\ UNCHANGED <<hFetches, hTimers>>
     /\ UNCHANGED <<hOptions, hAttempt, hHistory, hResponse, hOriginal, hPaid, hSleeps, hReplay>>

postJson ==
  \E requestOptions \in RequestOptionsSet :
    StartCall("postJson", requestOptions, Some("application/json"))

postMultipart ==
  \E requestOptions \in RequestOptionsSet :
    StartCall("postMultipart", requestOptions, Undefined)

\* The contentType argument of rawPost: left out, empty, or a media type.
RawContentTypes == {Undefined, Some(""), Some("application/octet-stream")}

\* if (contentType) headers["content-type"] = contentType
rawContentType(contentType) ==
  IF IsDefined(contentType) /\ contentType[1] # "" THEN contentType ELSE Undefined

rawPost ==
  \E requestOptions \in RequestOptionsSet, contentType \in RawContentTypes :
    StartCall("rawPost", requestOptions, rawContentType(contentType))

\* An outer catch that sleeps and continues whatever the attempt.
OuterCatch_AlwaysRetries(errorName) ==
  /\ hPc' = "sleeping"
  /\ hSleeps' = Append(hSleeps, hAttempt)
  /\ UNCHANGED hResult

\* The outer catch of requestWithRetries.
OuterCatch(errorName) ==
  IF hAttempt < maxAttempts - 1
  THEN /\ hPc' = "sleeping"
       /\ hSleeps' = Append(hSleeps, hAttempt)
       /\ UNCHANGED hResult
  ELSE /\ hPc' = "done"
       /\ hResult' = Some(FailureError(errorName))
       /\ UNCHANGED hSleeps

\* The attempt's fetch resolves with a response (headers received).
FetchResolves ==
  \E response \in Responses :
    /\ hPc = "fetching"
    /\ hTimers' = ClearTimer(hTimers)
    /\ hHistory' = Append(hHistory, [outcome |-> "response", status |-> response.status,
                                     body |-> "unread"])
    /\ hResponse' = Some(response)
    /\ IF Intercepts(response.status, hOptions)
       THEN hPc' = "readingChallenge" /\ UNCHANGED hSleeps
       ELSE IF isRetryableStatus(response.status) /\ hAttempt < maxAttempts - 1
       THEN hPc' = "sleeping" /\ hSleeps' = Append(hSleeps, hAttempt)
       ELSE hPc' = "reading" /\ UNCHANGED hSleeps
    /\ UNCHANGED <<hOptions, hCall, hAttempt, hFetches, hOriginal, hPaid, hReplay, hResult>>

\* The attempt's fetch rejects: the timeout's abort or a network failure.
FetchRejects ==
  \E errorName \in FetchErrors :
    /\ hPc = "fetching"
    /\ hTimers' = ClearTimer(hTimers)
    /\ hHistory' = Append(hHistory, [outcome |-> errorName, status |-> 0, body |-> "unread"])
    /\ OuterCatch(errorName)
    /\ UNCHANGED <<hOptions, hCall, hAttempt, hFetches, hResponse, hOriginal, hPaid, hReplay>>

MarkBody(history, how) ==
  [history EXCEPT ![Len(history)].body = how]

\* parseResponseData of the response the call returns (line 255).
BodyRead ==
  /\ hPc = "reading"
  /\ UNCHANGED hTimers
  /\ hHistory' = MarkBody(hHistory, "read")
  /\ hPc' = "done"
  /\ hResult' = Some(Normalized(hResponse[1].status, headersToRecord(hResponse[1].headers),
                                parseResponseData(hResponse[1])))
  /\ UNCHANGED <<hOptions, hCall, hAttempt, hFetches, hResponse, hOriginal, hPaid, hSleeps, hReplay>>

\* Reading a body fails (the connection drops): the outer catch takes it, and
\* the attempt counts as one that failed at network level.
BodyFails ==
  /\ hPc \in {"reading", "readingChallenge"}
  /\ UNCHANGED hTimers
  /\ hHistory' = [hHistory EXCEPT ![Len(hHistory)] =
                     [outcome |-> "TypeError", status |-> 0, body |-> "failed"]]
  /\ OuterCatch("TypeError")
  /\ UNCHANGED <<hOptions, hCall, hAttempt, hFetches, hResponse, hOriginal, hPaid, hReplay>>

\* The 402 branch: body read, challenge parsed; the handler is called if there
\* is a challenge, else the 402 is returned.
ChallengeRead ==
  LET responseHeaders == headersToRecord(hResponse[1].headers)
      data == parseResponseData(hResponse[1])
      challenge == parseL402Challenge(responseHeaders, data)
      original == [headers |-> responseHeaders, data |-> data, challenge |-> challenge]
  IN /\ hPc = "readingChallenge"
     /\ UNCHANGED hTimers
     /\ hHistory' = MarkBody(hHistory, "read")
     /\ hOriginal' = Some(original)
     /\ IF IsDefined(challenge)
        THEN /\ hPc' = "paying"
             /\ hPaid' = Append(hPaid, challenge[1])
             /\ UNCHANGED hResult
        ELSE /\ hPc' = "done"
             /\ hResult' = Some(Normalized(402, responseHeaders, data))
             /\ UNCHANGED hPaid
     /\ UNCHANGED <<hOptions, hCall, hAttempt, hFetches, hResponse, hSleeps, hReplay>>

\* handlePaymentRequired resolves: the request is sent again with L402 credentials.
HandlerResolves ==
  \E preimage \in Preimages :
    LET retryHeaders ==
          [hCall.headers EXCEPT
             !.authorization = Some(buildL402Authorization(hOriginal[1].challenge[1].macaroon, preimage))]
    IN /\ hPc = "paying"
       /\ hPc' = "replaying"
       /\ hFetches' = Append(hFetches, [headers |-> retryHeaders, replay |-> TRUE])
       /\ hTimers' = ArmTimer(hTimers)
       /\ hResponse' = Undefined
       /\ UNCHANGED <<hOptions, hCall, hAttempt, hHistory, hOriginal, hPaid, hSleeps, hReplay, hResult>>

\* No inner catch: what the auto-pay path throws reaches the outer catch.
AutoPayCatch_Retries ==
  /\ OuterCatch("TypeError")
  /\ UNCHANGED <<hOptions, hCall, hAttempt, hFetches, hHistory, hOriginal, hPaid>>

\* handlePaymentRequired rejects, the replay's fetch rejects or the replay's
\* body cannot be read: the inner catch.
AutoPayCatch ==
  /\ hPc' = "done"
  /\ hResult' = Some(AutoPayFailed(hOriginal[1]))
  /\ UNCHANGED <<hOptions, hCall, hAttempt, hFetches, hHistory, hOriginal, hPaid, hSleeps>>

HandlerRejects ==
  /\ hPc = "paying"
  /\ UNCHANGED hTimers
  /\ UNCHANGED <<hResponse, hReplay>>
  /\ AutoPayCatch

ReplayResolves ==
  \E response \in Responses :
    /\ hPc = "replaying"
    /\ hTimers' = ClearTimer(hTimers)
    /\ hPc' = "readingReplay"
    /\ hResponse' = Some(response)
    /\ hReplay' = Some([outcome |-> "response", status |-> response.status, body |-> "unread"])
    /\ UNCHANGED <<hOptions, hCall, hAttempt, hFetches, hHistory, hOriginal, hPaid, hSleeps, hResult>>

ReplayRejects ==
  \E errorName \in FetchErrors :
    /\ hPc = "replaying"
    /\ hTimers' = ClearTimer(hTimers)
    /\ hReplay' = Some([outcome |-> errorName, status |-> 0, body |-> "unread"])
    /\ UNCHANGED hResponse
    /\ AutoPayCatch

ReplayBodyRead ==
  /\ hPc = "readingReplay"
  /\ UNCHANGED hTimers
  /\ hPc' = "done"
  /\ hReplay' = [hReplay EXCEPT ![1].body = "read"]
  /\ hResult' = Some(Normalized(hResponse[1].status, headersToRecord(hResponse[1].headers),
                                parseResponseData(hResponse[1])))
  /\ UNCHANGED <<hOptions, hCall, hAttempt, hFetches, hHistory, hResponse, hOriginal, hPaid, hSleeps>>

ReplayBodyFails ==
  /\ hPc = "readingReplay"
  /\ UNCHANGED hTimers
  /\ hReplay' = [hReplay EXCEPT ![1].body = "failed"]
  /\ UNCHANGED hResponse
  /\ AutoPayCatch

\* The backoff sleep ends: `continue` increments attempt and the loop's
\* condition is tested; the next attempt fetches the same request, or the loop
\* is left and internal_retry_error is thrown.
SleepEnds ==
  /\ hPc = "sleeping"
  /\ hAttempt' = hAttempt + 1
  /\ hResponse' = Undefined
  /\ IF hAttempt + 1 < maxAttempts
     THEN /\ hPc' = "fetching"
          /\ hFetches' = Append(hFetches, [headers |-> hCall.headers, replay |-> FALSE])
          /\ hTimers' = ArmTimer(hTimers)
          /\ UNCHANGED hResult
     ELSE /\ hPc' = "done"
          /\ hResult' = Some(RuntimeError("internal_retry_error", 500))
          /\ UNCHANGED <<hFetches, hTimers>>
  /\ UNCHANGED <<hOptions, hCall, hHistory, hOriginal, hPaid, hSleeps, hReplay>>


\* ------------------------------------------ result envelopes (results.ts)

\* The body fields the result functions read, each absent (<<>>) or present.
\* `error` is the nested error object with its code and message.
BodyFields(status, code, error, message, payment) ==
  [status |-> status, code |-> code, error |-> error, message |-> message,
   amount_sats |-> payment.amount_sats, invoice |-> payment.invoice,
   payment_hash |-> payment.payment_hash, expires_in |-> payment.expires_in,
   required_sats |-> payment.required_sats, available_sats |-> payment.available_sats]

NoPayment ==
  [amount_sats |-> Undefined, invoice |-> Undefined, payment_hash |-> Undefined,
   expires_in |-> Undefined, required_sats |-> Undefined, available_sats |-> Undefined]
QuotePayment ==
  [amount_sats |-> Some(30), invoice |-> Some(Str("lnbc_test")),
   payment_hash |-> Some(Str("abc123")), expires_in |-> Some(120),
   required_sats |-> Undefined, available_sats |-> Undefined]
PartialPayment ==
  [amount_sats |-> Undefined, invoice |-> Some(Str("lnbc_only")),
   payment_hash |-> Undefined, expires_in |-> Undefined,
   required_sats |-> Some(30), available_sats |-> Some(5)]

NoFields == BodyFields(Undefined, Undefined, Undefined, Undefined, NoPayment)

\* Parsed response data: a JSON object (or the {raw} / binary record), a string,
\* or another JSON value (null, a number).
ObjectData(fields) == [kind |-> "object", text |-> EmptyString, fields |-> fields]
TextData(text) == [kind |-> "text", text |-> text, fields |-> NoFields]
ScalarData == [kind |-> "scalar", text |-> EmptyString, fields |-> NoFields]

\* The response headers the result functions read.
ResultHeaders(wwwAuthenticate, xTopupUrl) ==
  [wwwAuthenticate |-> wwwAuthenticate, xTopupUrl |-> xTopupUrl]

\* a ?? b
Coalesce(a, b) == IF IsDefined(a) THEN a ELSE b

DefaultMessage(status) == <<"Upstream request failed with status ", ToString(status)>>

pickMessage(data, fallback) ==
  IF data.kind = "text" /\ data.text # EmptyString THEN data.text
  ELSE IF ~isRecord(data) THEN fallback
  ELSE LET nestedError == data.fields.error
           nestedMessage == IF IsDefined(nestedError) THEN asString(nestedError[1].message)
                            ELSE Undefined
           picked == Coalesce(nestedMessage,
                       Coalesce(asString(data.fields.message), asString(data.fields.status)))
       IN IF IsDefined(picked) THEN picked[1] ELSE fallback

mapErrorCode(status, data) ==
  IF isRecord(data)
  THEN LET nestedError == data.fields.error
           nestedCode == IF IsDefined(nestedError) THEN asString(nestedError[1].code)
                         ELSE Undefined
           directStatus == asString(data.fields.status)
           declared == Coalesce(nestedCode, Coalesce(asString(data.fields.code), directStatus))
       IN IF status = 402 /\ directStatus = Some(Str("payment_required"))
          THEN Str("payment_required")
          ELSE IF status = 402 /\ directStatus = Some(Str("insufficient_balance"))
          THEN Str("insufficient_balance")
          ELSE IF IsDefined(declared) THEN declared[1]
          ELSE IF status = 401 THEN Str("invalid_token")
          ELSE Str("upstream_error")
  ELSE IF status = 401 THEN Str("invalid_token")
  ELSE IF status = 402 THEN Str("payment_required")
  ELSE IF status = 404 THEN Str("endpoint_not_found")
  ELSE IF status = 413 THEN Str("request_too_large")
  ELSE IF status = 429 THEN Str("rate_limited")
  ELSE IF status >= 500 THEN Str("upstream_unavailable")
  ELSE Str("upstream_error")

\* extractL402Macaroon: one pattern matches macaroon= and token= alike, so the
\* parameter standing leftmost in the text is the one read. Its quoted value,
\* when not empty, is returned with one trailing ":" removed. When that value
\* is empty the unquoted pattern is tried; it matches the same leftmost
\* parameter and captures its two quote characters.
extractL402Macaroon(wwwAuth) ==
  IF ~IsDefined(wwwAuth) THEN Undefined
  ELSE IF wwwAuth[1].scheme \notin {"L402", "l402"} THEN Undefined
  ELSE LET params == wwwAuth[1].params
           written == SelectSeq(params.order, LAMBDA name : IsDefined(params[name]))
           quotedMacaroon == IF written = <<>> THEN Undefined ELSE params[written[1]]
           unquotedMacaroon == IF written = <<>> THEN Undefined ELSE Some(<<"\"\"">>)
       IN IF IsDefined(quotedMacaroon) /\ quotedMacaroon[1] # EmptyString
          THEN Some(stripTrailingColon(quotedMacaroon[1]))
          ELSE IF IsDefined(unquotedMacaroon)
          THEN Some(stripTrailingColon(unquotedMacaroon[1]))
          ELSE Undefined

NoMetadata ==
  [amount_sats |-> Undefined, invoice |-> Undefined, payment_hash |-> Undefined,
   expires_in |-> Undefined, required_sats |-> Undefined, available_sats |-> Undefined,
   topup_url |-> Undefined, macaroon |-> Undefined]

\* A metadata extraction that forgets the invoice.
extractPaymentMetadata_NoInvoice(data, headers) ==
  IF ~isRecord(data) THEN NoMetadata
  ELSE [amount_sats |-> data.fields.amount_sats, invoice |-> Undefined,
        payment_hash |-> data.fields.payment_hash, expires_in |-> data.fields.expires_in,
        required_sats |-> data.fields.required_sats,
        available_sats |-> data.fields.available_sats,
        topup_url |-> IF Truthy(headers.xTopupUrl) THEN headers.xTopupUrl ELSE Undefined,
        macaroon |-> IF Truthy(extractL402Macaroon(headers.wwwAuthenticate))
                     THEN extractL402Macaroon(headers.wwwAuthenticate) ELSE Undefined]

extractPaymentMetadata(data, headers) ==
  IF ~isRecord(data) THEN NoMetadata
  ELSE [amount_sats |-> data.fields.amount_sats, invoice |-> data.fields.invoice,
        payment_hash |-> data.fields.payment_hash, expires_in |-> data.fields.expires_in,
        required_sats |-> data.fields.required_sats,
        available_sats |-> data.fields.available_sats,
        topup_url |-> IF Truthy(headers.xTopupUrl) THEN headers.xTopupUrl ELSE Undefined,
        macaroon |-> IF Truthy(extractL402Macaroon(headers.wwwAuthenticate))
                     THEN extractL402Macaroon(headers.wwwAuthenticate) ELSE Undefined]

NoError == [code |-> EmptyString, message |-> EmptyString, metadata |-> NoMetadata,
            details |-> Undefined]

\* An AlbomToolResult: AlbomSuccess (ok) or AlbomError.
buildSuccessResult(endpoint, status, data, model, priceSats) ==
  [ok |-> TRUE, status |-> status, endpoint |-> endpoint, model |-> model,
   price_sats |-> priceSats, data |-> Some(data), error |-> NoError]

buildErrorResult(endpoint, status, data, headers, model) ==
  [ok |-> FALSE, status |-> status, endpoint |-> endpoint, model |-> model,
   price_sats |-> Undefined, data |-> Undefined,
   error |-> [code |-> mapErrorCode(status, data),
              message |-> pickMessage(data, DefaultMessage(status)),
              metadata |-> extractPaymentMetadata(data, headers),
              details |-> Undefined]]

fromHttpResponse(endpoint, response, model, priceSats) ==
  IF response.status >= 200 /\ response.status < 300
  THEN buildSuccessResult(endpoint, response.status, response.data, model, priceSats)
  ELSE buildErrorResult(endpoint, response.status, response.data, response.headers, model)

\* new AlbomRuntimeError(code, message, status, details) (errors.ts); details
\* is absent (<<>>) or the record given.
AlbomRuntimeError(code, message, status, details) ==
  [albom |-> TRUE, code |-> Str(code), message |-> message, status |-> status,
   details |-> details]

\* Any other thrown value, with the text toErrorMessage gives it.
OtherError(message) ==
  [albom |-> FALSE, code |-> EmptyString, message |-> message, status |-> 0,
   details |-> Undefined]

fromRuntimeError(endpoint, error, model) ==
  IF error.albom
  THEN [ok |-> FALSE, status |-> error.status, endpoint |-> endpoint, model |-> model,
        price_sats |-> Undefined, data |-> Undefined,
        error |-> [code |-> error.code, message |-> error.message,
                   metadata |-> NoMetadata, details |-> error.details]]
  ELSE [ok |-> FALSE, status |-> 500, endpoint |-> endpoint, model |-> model,
        price_sats |-> Undefined, data |-> Undefined,
        error |-> [code |-> Str("internal_error"), message |-> error.message,
                   metadata |-> NoMetadata, details |-> Undefined]]

\* The property names every plain object inherits from Object.prototype.
ObjectPrototypeKeys ==
  {"constructor", "toString", "valueOf", "hasOwnProperty", "isPrototypeOf",
   "propertyIsEnumerable", "toLocaleString", "__proto__",
   "__defineGetter__", "__defineSetter__", "__lookupGetter__", "__lookupSetter__"}

\* endpoint.modelPrices[key]: the entry of the map, else what the object
\* inherits under that name (a value that is truthy and has no price_sats),
\* else undefined.
PropertyOf(modelPrices, key) ==
  IF key \in PricedNames(modelPrices)
  THEN [truthy |-> TRUE,
        price_sats |-> Some(modelPrices[CHOOSE k \in DOMAIN modelPrices :
                                           modelPrices[k][1] = key][2])]
  ELSE IF key \in ObjectPrototypeKeys THEN [truthy |-> TRUE, price_sats |-> Undefined]
  ELSE [truthy |-> FALSE, price_sats |-> Undefined]

\* resolvePriceSats(endpoint)(model); model is undefined or Some of a string
\* kept as its one piece.
resolvePriceSats(endpoint, model) ==
  LET requested == IF Truthy(model) THEN PropertyOf(endpoint.modelPrices, model[1][1])
                   ELSE [truthy |-> FALSE, price_sats |-> Undefined]
      fallback == PropertyOf(endpoint.modelPrices, "_default")
      defaultPricing == IF IsDefined(endpoint.defaultModel)
                        THEN PropertyOf(endpoint.modelPrices, endpoint.defaultModel[1])
                        ELSE [truthy |-> FALSE, price_sats |-> Undefined]
  IN IF endpoint.priceType = "flat" THEN endpoint.flatPriceSats
     ELSE IF requested.truthy THEN requested.price_sats
     ELSE IF fallback.truthy THEN fallback.price_sats
     ELSE IF defaultPricing.truthy THEN defaultPricing.price_sats
     ELSE IF endpoint.modelPrices = <<>> THEN Undefined
     ELSE Some(endpoint.modelPrices[1][2])

\* --------------------------------------------------- uploads (uploads.ts)

\* The two sources of an upload, each absent or a description of what it holds:
\* a path that cannot be read or a file of some size; a base64 text that is
\* blank, decodes to nothing, or decodes to some size. The description of a
\* path also stands for its text where a message quotes the path.
UploadSource(filePath, fileBase64) == [filePath |-> filePath, fileBase64 |-> fileBase64]
NoUpload == UploadSource(Undefined, Undefined)

Prepared(upload) == [kind |-> "upload", upload |-> upload, error |-> OtherError(EmptyString)]
NotPrepared == [kind |-> "none", upload |-> "", error |-> OtherError(EmptyString)]
UploadFails(error) == [kind |-> "throws", upload |-> "", error |-> error]

\* validateUploadSize on "empty" (0 bytes), "small" (within maxBytes), "big".
validateUploadSize(size, label) ==
  IF size = "empty"
  THEN UploadFails(AlbomRuntimeError("empty_upload", <<label, " is empty">>, 400, Undefined))
  ELSE IF size = "big"
  THEN UploadFails(AlbomRuntimeError("file_too_large", <<label, " exceeds max upload size">>, 413,
                                     Some("max_bytes, size_bytes")))
  ELSE Prepared(label)

prepareUpload(source, label, required) ==
  IF ~IsDefined(source.filePath) /\ ~IsDefined(source.fileBase64)
  THEN IF required
       THEN UploadFails(AlbomRuntimeError("missing_file",
              <<label, " requires exactly one of file_path or file_base64">>, 400, Undefined))
       ELSE NotPrepared
  ELSE IF IsDefined(source.filePath) /\ IsDefined(source.fileBase64)
  THEN UploadFails(AlbomRuntimeError("invalid_file_input",
         <<label, " requires exactly one of file_path or file_base64">>, 400, Undefined))
  ELSE IF IsDefined(source.filePath)
  THEN IF source.filePath[1] = "unreadable"
       THEN UploadFails(AlbomRuntimeError("file_read_failed",
              <<"Could not read ", label, " from ", source.filePath[1]>>, 400, Some("cause")))
       ELSE validateUploadSize(source.filePath[1], label)
  ELSE IF source.fileBase64[1] = "blank"
  THEN UploadFails(AlbomRuntimeError("invalid_base64", <<"Base64 payload is empty">>, 400, Undefined))
  ELSE IF source.fileBase64[1] = "empty"
  THEN UploadFails(AlbomRuntimeError("invalid_base64", <<"Base64 payload could not be decoded">>,
                                     400, Undefined))
  ELSE validateUploadSize(source.fileBase64[1], label)

\* ------------------------------------------ tool executor (executor.ts)

\* The argument object of a call, reduced to the keys the handlers read. A
\* string key is absent (<<>>), the empty string, or a non-empty string (what
\* asString keeps); `input` is present or absent ("input" in args).
Args(model, prompt, voice, input, upload, mask, endpoint, contentType, flags) ==
  [model |-> model, prompt |-> prompt, voice |-> voice, input |-> input,
   upload |-> upload, mask |-> mask, endpoint |-> endpoint, content_type |-> contentType,
   translate_to_english |-> flags.translate, refresh |-> flags.refresh,
   allow_l402_quote |-> flags.quote]

Flags(translate, refresh, quote) == [translate |-> translate, refresh |-> refresh, quote |-> quote]

\* What a handler does before its first upstream call: it throws, it reads the
\* catalog, or it posts to an endpoint.
NoEndpoint == Endpoint(<<>>, "", "", "", 0)
Throws(error) ==
  [kind |-> "throws", error |-> error, transport |-> "", endpointPath |-> <<>>,
   model |-> Undefined, allowL402Quote |-> FALSE, endpoint |-> NoEndpoint, refresh |-> FALSE]
Posts(transport, endpointPath, model, allowL402Quote, endpoint) ==
  [kind |-> "posts", error |-> OtherError(EmptyString), transport |-> transport,
   endpointPath |-> endpointPath, model |-> model, allowL402Quote |-> allowL402Quote,
   endpoint |-> endpoint, refresh |-> FALSE]
ReadsCatalog(refresh) ==
  [kind |-> "catalog", error |-> OtherError(EmptyString), transport |-> "",
   endpointPath |-> <<>>, model |-> Undefined, allowL402Quote |-> FALSE,
   endpoint |-> NoEndpoint, refresh |-> refresh]

MissingField(key) ==
  AlbomRuntimeError("invalid_input", <<"Missing required field: ", key>>, 400, Undefined)

\* requireString: the error thrown, if any, by requireString on each key in turn.
FirstMissing(args, keys) ==
  LET missing == SelectSeq(keys, LAMBDA k : ~IsDefined(asString(args[k])))
  IN IF missing = <<>> THEN Undefined ELSE Some(MissingField(missing[1]))

getEndpoint(path, catalog) ==
  LET endpoint == endpointByPath(catalog, path)
  IN IF ~IsDefined(endpoint)
     THEN [found |-> FALSE, endpoint |-> NoEndpoint,
           error |-> AlbomRuntimeError("endpoint_not_found",
                       <<"Endpoint not present in catalog: ">> \o path, 404, Undefined)]
     ELSE [found |-> TRUE, endpoint |-> endpoint[1], error |-> OtherError(EmptyString)]

\* callJson / callMultipart up to the await of the upstream call.
callJson(endpointPath, model, allowL402Quote, catalog) ==
  LET looked == getEndpoint(endpointPath, catalog)
  IN IF ~looked.found THEN Throws(looked.error)
     ELSE Posts("json", endpointPath, model, allowL402Quote, looked.endpoint)

callMultipart(endpointPath, model, allowL402Quote, catalog) ==
  LET looked == getEndpoint(endpointPath, catalog)
  IN IF ~looked.found THEN Throws(looked.error)
     ELSE Posts("multipart", endpointPath, model, allowL402Quote, looked.endpoint)

handleCatalogGet(args) == ReadsCatalog(args.refresh)

handleTextGenerate(endpointPath, args, catalog) ==
  LET missing == FirstMissing(args, <<"model">>)
  IN IF IsDefined(missing) THEN Throws(missing[1])
     ELSE IF ~IsDefined(args.input) THEN Throws(MissingField("input"))
     ELSE callJson(endpointPath, asString(args.model), args.allow_l402_quote, catalog)

handleImageGenerate(endpointPath, args, catalog) ==
  LET missing == FirstMissing(args, <<"model", "prompt">>)
  IN IF IsDefined(missing) THEN Throws(missing[1])
     ELSE callJson(endpointPath, asString(args.model), args.allow_l402_quote, catalog)

\* The handlers that await prepareUpload call callMultipart after that await:
\* its getEndpoint reads the catalog state current then (later), which need
\* not be the one current when execute was called (catalog).
handleImageEdit(endpointPath, args, later) ==
  LET missing == FirstMissing(args, <<"model", "prompt">>)
      mainImage == prepareUpload(args.upload, "image", TRUE)
      maskImage == prepareUpload(args.mask, "mask", FALSE)
  IN IF IsDefined(missing) THEN Throws(missing[1])
     ELSE IF mainImage.kind = "throws" THEN Throws(mainImage.error)
     ELSE IF maskImage.kind = "throws" THEN Throws(maskImage.error)
     ELSE callMultipart(endpointPath, asString(args.model), args.allow_l402_quote, later)

handleAudioTranscribe(endpointPath, translationEndpointPath, args, later) ==
  LET resolvedEndpoint == IF args.translate_to_english /\ IsDefined(translationEndpointPath)
                          THEN translationEndpointPath[1] ELSE endpointPath
      audioUpload == prepareUpload(args.upload, "audio", TRUE)
  IN IF audioUpload.kind = "throws" THEN Throws(audioUpload.error)
     ELSE IF audioUpload.kind = "none"
     THEN Throws(AlbomRuntimeError("missing_file", <<"Audio file is required">>, 400, Undefined))
     ELSE callMultipart(resolvedEndpoint, asString(args.model), args.allow_l402_quote, later)

handleAudioSpeech(endpointPath, args, catalog) ==
  LET missing == FirstMissing(args, <<"model", "voice", "input">>)
  IN IF IsDefined(missing) THEN Throws(missing[1])
     ELSE callJson(endpointPath, asString(args.model), args.allow_l402_quote, catalog)

handleVideoGenerate(endpointPath, args, catalog) ==
  LET missing == FirstMissing(args, <<"model", "prompt">>)
  IN IF IsDefined(missing) THEN Throws(missing[1])
     ELSE callJson(endpointPath, asString(args.model), args.allow_l402_quote, catalog)

handleModeration(endpointPath, args, catalog) ==
  IF ~IsDefined(args.input) THEN Throws(MissingField("input"))
  ELSE callJson(endpointPath, asString(args.model), args.allow_l402_quote, catalog)

handleEmbedding(endpointPath, args, catalog) ==
  IF ~IsDefined(args.input) THEN Throws(MissingField("input"))
  ELSE callJson(endpointPath, asString(args.model), args.allow_l402_quote, catalog)

handleFullEndpoint(tool, args, catalog, later) ==
  LET upload == prepareUpload(args.upload, "file", tool.fileField # "")
  IN IF tool.contentType = "json"
     THEN callJson(tool.endpointPath[1], asString(args.model), args.allow_l402_quote, catalog)
     ELSE IF upload.kind = "throws" THEN Throws(upload.error)
     ELSE callMultipart(tool.endpointPath[1], asString(args.model), args.allow_l402_quote, later)

handleRawCall(args, catalog, later) ==
  LET missing == FirstMissing(args, <<"endpoint">>)
      endpointPath == args.endpoint[1]
      endpoint == endpointByPath(catalog, endpointPath)
      declared == asString(args.content_type)
      contentType == IF IsDefined(declared) THEN declared[1] ELSE Str(endpoint[1].contentType)
      upload == prepareUpload(args.upload, "file", endpoint[1].fileField # "")
  IN IF IsDefined(missing) THEN Throws(missing[1])
     ELSE IF ~IsDefined(endpoint)
     THEN Throws(AlbomRuntimeError("endpoint_not_allowlisted",
                   <<"Endpoint is not present in current catalog: ">> \o endpointPath, 400,
                   Undefined))
     ELSE IF contentType = Str("json")
     THEN callJson(endpointPath, asString(args.model), args.allow_l402_quote, catalog)
     ELSE IF contentType # Str("multipart")
     THEN Throws(AlbomRuntimeError("invalid_input", <<"content_type must be json or multipart">>,
                                   400, Undefined))
     ELSE IF upload.kind = "throws" THEN Throws(upload.error)
     ELSE callMultipart(endpointPath, asString(args.model), args.allow_l402_quote, later)

\* The handler reaches an await of prepareUpload: handleImageEdit once model
\* and prompt are there, handleAudioTranscribe always, handleFullEndpoint for a
\* multipart tool, handleRawCall for an allowlisted endpoint taken as multipart.
AwaitsUpload(tool, args, catalog) ==
  CASE tool.kind = "image_edit" -> ~IsDefined(FirstMissing(args, <<"model", "prompt">>))
    [] tool.kind = "audio_transcribe" -> TRUE
    [] tool.kind = "full_endpoint" -> tool.contentType # "json"
    [] tool.kind = "raw_call" ->
         /\ ~IsDefined(FirstMissing(args, <<"endpoint">>))
         /\ IsDefined(endpointByPath(catalog, args.endpoint[1]))
         /\ LET declared == asString(args.content_type)
            IN IF IsDefined(declared) THEN declared[1] = Str("multipart")
               ELSE endpointByPath(catalog, args.endpoint[1])[1].contentType = "multipart"
    [] OTHER -> FALSE

\* The switch of execute: the handler the tool's kind selects, run up to its
\* first upstream call. catalog is the catalog state current when execute is
\* called, later the one current after the handler's await of prepareUpload.
Handle(tool, args, catalog, later) ==
  CASE tool.kind = "catalog_get" -> handleCatalogGet(args)
    [] tool.kind = "text_generate" -> handleTextGenerate(tool.endpointPath[1], args, catalog)
    [] tool.kind = "image_generate" -> handleImageGenerate(tool.endpointPath[1], args, catalog)
    [] tool.kind = "image_edit" -> handleImageEdit(tool.endpointPath[1], args, later)
    [] tool.kind = "audio_transcribe" ->
         handleAudioTranscribe(tool.endpointPath[1], tool.translationEndpointPath, args, later)
    [] tool.kind = "audio_speech" -> handleAudioSpeech(tool.endpointPath[1], args, catalog)
    [] tool.kind = "video_generate" -> handleVideoGenerate(tool.endpointPath[1], args, catalog)
    [] tool.kind = "safety_moderate" -> handleModeration(tool.endpointPath[1], args, catalog)
    [] tool.kind = "embedding_create" -> handleEmbedding(tool.endpointPath[1], args, catalog)
    [] tool.kind = "full_endpoint" -> handleFullEndpoint(tool, args, catalog, later)
    [] tool.kind = "raw_call" -> handleRawCall(args, catalog, later)

\* The endpoints of the catalog the executor's tools were planned from.
EpSpeech == Endpoint(PathSpeech, "POST", "json", "", 40)
EpEmbeddings == Endpoint(PathEmbeddings, "POST", "json", "", 2)
\* A multipart endpoint that declares no file field.
EpFormOnly == Endpoint(<<"v1", "forms">>, "POST", "multipart", "", 7)
\* The text endpoint priced per model with a "_default" price, and the speech
\* endpoint priced per model without one.
EpResponsesPerModel ==
  PerModel(EpResponses, << <<"gpt-4o", 50>>, <<"gpt-4o-mini", 30>>, <<"_default", 35>> >>)
EpSpeechPerModel == PerModel(EpSpeech, << <<"gpt-4o-mini", 40>> >>)
CatEverything ==
  <<EpSpeechPerModel, EpTranscribe, EpTranslate, EpEmbeddings, EpFormOnly, EpImagesEdit,
    EpImagesGen, EpModelsGet, EpModerations, EpResponsesPerModel, EpVideo>>

SeqRange(seq) == {seq[k] : k \in 1..Len(seq)}

\* The planned tools execute is called with: every compact kind, and the full
\* profile's per-endpoint tools.
ExecTools ==
  SeqRange(makeCompactTools(CatEverything, Config("compact", TRUE, TRUE, TRUE, TRUE)))
    \cup SeqRange(makeFullTools(CatEverything, Config("full", TRUE, TRUE, TRUE, FALSE)))

\* The catalogs getCatalogState may hold when a tool is called: the one the
\* tools were planned from, or a later one that lost most endpoints.
ExecCatalogs == {CatEverything, CatResponses}

SmallFile == UploadSource(Some("small"), Undefined)
GoodArgs ==
  Args(Some(Str("gpt")), Some(Str("a cat")), Some(Str("alloy")), Some(Str("hello")),
       SmallFile, NoUpload, Some(PathResponses), Undefined, Flags(FALSE, FALSE, FALSE))

\* The argument objects: a complete one, and the ones that differ from it in
\* one respect.
ExecArgs ==
  {GoodArgs,
   [GoodArgs EXCEPT !.allow_l402_quote = TRUE],
   [GoodArgs EXCEPT !.model = Undefined],
   [GoodArgs EXCEPT !.model = Some(EmptyString)],
   [GoodArgs EXCEPT !.model = Some(Str("gpt-4o"))],
   [GoodArgs EXCEPT !.model = Some(Str("constructor"))],
   [GoodArgs EXCEPT !.prompt = Undefined],
   [GoodArgs EXCEPT !.voice = Undefined],
   [GoodArgs EXCEPT !.input = Undefined],
   [GoodArgs EXCEPT !.input = Some(EmptyString)],
   [GoodArgs EXCEPT !.upload = NoUpload],
   [GoodArgs EXCEPT !.upload = UploadSource(Some("small"), Some("small"))],
   [GoodArgs EXCEPT !.upload = UploadSource(Some("unreadable"), Undefined)],
   [GoodArgs EXCEPT !.upload = UploadSource(Some("empty"), Undefined)],
   [GoodArgs EXCEPT !.upload = UploadSource(Undefined, Some("blank"))],
   [GoodArgs EXCEPT !.upload = UploadSource(Undefined, Some("big"))],
   [GoodArgs EXCEPT !.mask = UploadSource(Some("big"), Undefined)],
   [GoodArgs EXCEPT !.translate_to_english = TRUE],
   [GoodArgs EXCEPT !.refresh = TRUE],
   [GoodArgs EXCEPT !.endpoint = Undefined],
   [GoodArgs EXCEPT !.endpoint = Some(EmptyString)],
   [GoodArgs EXCEPT !.endpoint = Some(<<"v1", "unknown">>)],
   [GoodArgs EXCEPT !.endpoint = Some(EpModelsGet.path)],
   [GoodArgs EXCEPT !.endpoint = Some(PathTranscribe)],
   [GoodArgs EXCEPT !.endpoint = Some(PathTranscribe), !.content_type = Some(Str("json"))],
   [GoodArgs EXCEPT !.content_type = Some(Str("xml"))]}

\* The upstream responses the HTTP client resolves with, as the handler sees
\* them: status, headers, parsed data.
UpstreamStatuses == {200, 400, 401, 402, 404, 413, 429, 502}
UpstreamBodies ==
  {ObjectData(NoFields),
   ObjectData(BodyFields(Some(Str("payment_required")), Undefined, Undefined,
                         Some(Str("Payment required")), QuotePayment)),
   ObjectData(BodyFields(Some(Str("payment_required")), Undefined, Undefined, Undefined,
                         PartialPayment)),
   ObjectData(BodyFields(Some(Str("insufficient_balance")), Undefined, Undefined, Undefined,
                         PartialPayment)),
   ObjectData(BodyFields(Undefined, Undefined,
                         Some([code |-> Some(Str("invalid_token")),
                               message |-> Some(Str("Token is invalid"))]),
                         Undefined, NoPayment)),
   ObjectData(BodyFields(Undefined, Some(Str("model_not_found")), Undefined, Undefined,
                         QuotePayment)),
   TextData(Str("oops")),
   TextData(EmptyString),
   ScalarData}
UpstreamHeaders ==
  {ResultHeaders(www, topup) :
     www \in {Undefined,
              Some(Www("L402", Some(<<"mac_test", ":">>), Undefined, Some(Str("lnbc_test")))),
              Some(WwwInOrder("L402", TokenFirst, Some(Str("mac_test")), Some(Str("mac_simple")),
                              Undefined)),
              Some(WwwInOrder("L402", TokenFirst, Some(<<":">>), Some(EmptyString), Undefined))},
     topup \in {Undefined, Some(EmptyString), Some(Str("/topup"))}}
UpstreamResponses ==
  {[status |-> status, headers |-> headers, data |-> data] :
     status \in UpstreamStatuses, headers \in UpstreamHeaders, data \in UpstreamBodies}

\* The responses the executor's upstream calls resolve with: every 402, and
\* for the other statuses a JSON object and a text body without special headers.
ExecResponses ==
  {r \in UpstreamResponses :
     \/ r.status = 402
     \/ /\ r.headers = ResultHeaders(Undefined, Undefined)
        /\ r.data \in {ObjectData(NoFields), TextData(Str("oops"))}}

\* fromHttpResponse is handed any of the upstream responses.
ResultsInit ==
  /\ rResponse \in UpstreamResponses
  /\ rResult = Undefined

FromHttpResponse ==
  /\ rResult = Undefined
  /\ rResult' = Some(fromHttpResponse(PathResponses, rResponse, Some(Str("gpt")), Some(30)))
  /\ UNCHANGED rResponse

\* What the HTTP client throws once its retries are used up.
UpstreamErrors ==
  {AlbomRuntimeError("upstream_timeout", <<"HTTP request failed: aborted">>, 504, Undefined),
   AlbomRuntimeError("network_error", <<"HTTP request failed: fetch failed">>, 503, Undefined)}
NoStrategyError ==
  AlbomRuntimeError("missing_bearer_token",
    <<"ALBOM_BEARER_TOKEN is not set. Configure it, set ALBOM_NWC_URL for auto-pay, ",
      "or set allow_l402_quote=true to request a payment quote.">>, 401, Undefined)

Resolved(result) == [settled |-> "resolved", result |-> Some(result), error |-> Undefined]
RejectedWith(error) == [settled |-> "rejected", result |-> Undefined, error |-> Some(error)]

\* The success envelope of handleCatalogGet.
CatalogResult(catalog) ==
  [ok |-> TRUE, status |-> 200, endpoint |-> <<"api", "catalog">>, model |-> Undefined,
   price_sats |-> Undefined, data |-> Some([kind |-> "catalog", text |-> EmptyString,
                                            fields |-> NoFields, catalog |-> catalog]),
   error |-> NoError]

\* The request options callJson and callMultipart pass to the HTTP client.
PostOptions(plan) == [allowL402Quote |-> plan.allowL402Quote, l402Auth |-> Undefined]

\* How execute settles when its handler throws: the handler is an async
\* function and its promise is returned without await, so the rejection
\* passes the catch of execute and reaches the caller.
executeOutcome(tool, plan) ==
  RejectedWith(plan.error)

ExecutorInit ==
  /\ xOptions \in [bearerToken : {Undefined, Some(Str("tok"))}, l402Handler : BOOLEAN]
  /\ xCatalog \in ExecCatalogs
  /\ xCall = Undefined
  /\ xPc = "idle"
  /\ xPlan = Undefined
  /\ xUpstream = Undefined
  /\ xOutcome = Undefined

\* execute(tool, rawArgs), up to the handler's first await: of prepareUpload,
\* of the catalog refresh, or of the upstream call.
Execute ==
  \E tool \in ExecTools, args \in ExecArgs :
    LET plan == Handle(tool, args, xCatalog, xCatalog)
    IN /\ xPc = "idle"
       /\ xCall' = Some([tool |-> tool, args |-> args, catalog |-> xCatalog])
       /\ IF AwaitsUpload(tool, args, xCatalog)
          THEN /\ xPc' = "preparing"
               /\ xPlan' = Undefined
               /\ xOutcome' = Undefined
          ELSE /\ xPlan' = Some(plan)
               /\ CASE plan.kind = "throws" ->
                         /\ xPc' = "done"
                         /\ xOutcome' = Some(executeOutcome(tool, plan))
                    [] plan.kind = "catalog" /\ ~plan.refresh ->
                         /\ xPc' = "done"
                         /\ xOutcome' = Some(Resolved(CatalogResult(xCatalog)))
                    [] plan.kind = "catalog" /\ plan.refresh ->
                         /\ xPc' = "refreshing"
                         /\ xOutcome' = Undefined
                    [] plan.kind = "posts" ->
                         /\ xPc' = "posting"
                         /\ xOutcome' = Undefined
       /\ UNCHANGED <<xOptions, xCatalog, xUpstream>>

\* While the call is suspended (on prepareUpload, on the upstream call or on
\* the catalog refresh) the registry replaces the catalog state
\* getCatalogState returns.
CatalogReplaced ==
  \E catalog \in ExecCatalogs \ {xCatalog} :
    /\ xPc \in {"preparing", "posting", "refreshing"}
    /\ xCatalog' = catalog
    /\ UNCHANGED <<xOptions, xCall, xPc, xPlan, xUpstream, xOutcome>>

\* prepareUpload settles: the handler throws its error, or goes on to
\* callMultipart, whose getEndpoint reads the catalog state current now.
UploadSettles ==
  LET plan == Handle(xCall[1].tool, xCall[1].args, xCall[1].catalog, xCatalog)
  IN /\ xPc = "preparing"
     /\ xPlan' = Some(plan)
     /\ IF plan.kind = "throws"
        THEN /\ xPc' = "done"
             /\ xOutcome' = Some(executeOutcome(xCall[1].tool, plan))
        ELSE /\ xPc' = "posting"
             /\ xOutcome' = Undefined
     /\ UNCHANGED <<xOptions, xCatalog, xCall, xUpstream>>

\* The upstream call resolves: fromHttpResponse builds the envelope.
PostResolves ==
  \E response \in ExecResponses :
    LET plan == xPlan[1]
    IN /\ xPc = "posting"
       /\ resolveHeaders(xOptions, PostOptions(plan)).ok
       /\ xUpstream' = Some([kind |-> "response", response |-> response])
       /\ xOutcome' = Some(Resolved(fromHttpResponse(plan.endpointPath, response, plan.model,
                                                     resolvePriceSats(plan.endpoint, plan.model))))
       /\ xPc' = "done"
       /\ UNCHANGED <<xOptions, xCatalog, xCall, xPlan>>

\* The upstream call throws (no authorization strategy, or the retries used
\* up): the catch of callJson / callMultipart builds the envelope.
PostRejects ==
  \E error \in UpstreamErrors \cup {NoStrategyError} :
    LET plan == xPlan[1]
    IN /\ xPc = "posting"
       /\ (error = NoStrategyError) = ~resolveHeaders(xOptions, PostOptions(plan)).ok
       /\ xUpstream' = Some([kind |-> "error", error |-> error])
       /\ xOutcome' = Some(Resolved(fromRuntimeError(plan.endpointPath, error, plan.model)))
       /\ xPc' = "done"
       /\ UNCHANGED <<xOptions, xCatalog, xCall, xPlan>>

\* refreshCatalog resolves with the catalog fetched, which the registry keeps.
RefreshResolves ==
  \E catalog \in ExecCatalogs :
    /\ xPc = "refreshing"
    /\ xCatalog' = catalog
    /\ xUpstream' = Some([kind |-> "catalog", catalog |-> catalog])
    /\ xOutcome' = Some(Resolved(CatalogResult(catalog)))
    /\ xPc' = "done"
    /\ UNCHANGED <<xOptions, xCall, xPlan>>

\* refreshCatalog rejects: handleCatalogGet rejects, and so does execute.
RefreshRejects ==
  \E error \in {OtherError(<<"Catalog fetch failed">>)} :
    /\ xPc = "refreshing"
    /\ xUpstream' = Some([kind |-> "error", error |-> error])
    /\ xOutcome' = Some(executeOutcome(xCall[1].tool, [xPlan[1] EXCEPT !.error = error]))
    /\ xPc' = "done"
    /\ UNCHANGED <<xOptions, xCatalog, xCall, xPlan>>

\* ----------------------------- tool callback (registry.ts, registerPlannedTool)

PaymentModes == {"bearer", "l402_passthrough"}

\* The HTTP client options server.ts builds for a payment mode.
ClientOptions(mode) ==
  [bearerToken |-> IF mode = "bearer" THEN Some(Str("tok")) ELSE Undefined,
   l402Handler |-> mode = "nwc"]

\* sha256(Buffer.from(preimageHex, "hex")) in hex; text that does not decode
\* gives the empty buffer.
paymentHashFromPreimage(preimageHex) ==
  CASE preimageHex = Str("00") ->
         Str("6e340b9cffb37a989ca544e6bb780a2c78901d3fb33738768511a30617afa01d")
    [] preimageHex = Str("01") ->
         Str("4bf5122f344554c53bde2ebb8cd2b7e3d1600ad631c385a5d7cce23c7785459a")
    [] OTHER ->
         Str("e3b0c44298fc1c149afbf4c8996fb92427ae41e4649b934ca495991b7852b855")

\* The catalog state the registry holds while the tools are called, and the
\* tools it registered from it: catalog_get and the paid text_generate.
CallbackCatalog == CatResponses
CallbackTools ==
  SeqRange(makeCompactTools(CallbackCatalog, Config("compact", TRUE, FALSE, FALSE, FALSE)))

\* The arguments of a tool call: the ones the executor's handlers read, and
\* payment_preimage, which the callback reads.
CallArgs(preimage, allowQuote, model) ==
  [payment_preimage |-> preimage]
    @@ [GoodArgs EXCEPT !.allow_l402_quote = allowQuote, !.model = model]

\* The calls made: a first call, one whose model is the empty string, a retry
\* with the preimage of a quote, one with a preimage that is not hex, and a
\* retry that also sets allow_l402_quote.
CallbackArgs ==
  {CallArgs(Undefined, FALSE, Some(Str("gpt"))),
   CallArgs(Undefined, FALSE, Some(EmptyString)),
   CallArgs(Some(Str("00")), FALSE, Some(Str("gpt"))),
   CallArgs(Some(Str("zz")), FALSE, Some(Str("gpt"))),
   CallArgs(Some(Str("00")), TRUE, Some(Str("gpt")))}

\* A 402 of the upstream quoting the invoice whose preimage is the given one.
QuoteReply(preimage, macaroon) ==
  [status |-> 402,
   headers |-> ResultHeaders(Some(Www("L402", Some(macaroon), Undefined,
                                      Some(Str("lnbc_quote")))), Undefined),
   data |-> ObjectData(BodyFields(Some(Str("payment_required")), Undefined, Undefined,
                                  Some(Str("Payment required")),
                                  [QuotePayment EXCEPT
                                     !.payment_hash = Some(paymentHashFromPreimage(preimage))]))]

\* What the upstream answers a tool's request with: a quote for either
\* preimage, a 402 without a challenge, or the result.
UpstreamReplies ==
  {QuoteReply(Str("00"), Str("macA")),
   QuoteReply(Str("01"), Str("macB")),
   [status |-> 402, headers |-> ResultHeaders(Undefined, Undefined), data |-> ObjectData(NoFields)],
   [status |-> 200, headers |-> ResultHeaders(Undefined, Undefined), data |-> ObjectData(NoFields)]}

\* The structuredContent returned for a preimage without a cached token.
UnknownPayment ==
  [ok |-> FALSE, status |-> 400,
   error |-> [code |-> Str("unknown_payment"),
              message |-> <<"No cached L402 token for this preimage. ",
                            "Make a call without payment_preimage first to get an invoice.">>]]

\* A resolution that goes on without credentials when the cache has no token.
resolveL402Auth_Lenient(mode, tool, args, context, entries, now) ==
  LET paymentHash == paymentHashFromPreimage(args.payment_preimage[1])
      got == IF context THEN cacheGet(entries, now, paymentHash)
             ELSE [ret |-> Undefined, entries |-> entries]
  IN IF mode = "l402_passthrough" /\ tool.kind # "catalog_get"
        /\ IsDefined(args.payment_preimage) /\ IsDefined(got.ret)
     THEN [unknown |-> FALSE,
           l402Auth |-> Some([macaroon |-> got.ret[1].macaroon,
                              preimage |-> args.payment_preimage[1]]),
           args |-> [args EXCEPT !.payment_preimage = Undefined],
           entries |-> got.entries]
     ELSE [unknown |-> FALSE, l402Auth |-> Undefined, args |-> args, entries |-> entries]

\* The callback's first block: the credentials resolved from payment_preimage
\* (unknown = TRUE where it returns unknown_payment), the arguments left and the
\* cache entries after the lookup.
resolveL402Auth(mode, tool, args, context, entries, now) ==
  IF mode = "l402_passthrough" /\ tool.kind # "catalog_get" /\ IsDefined(args.payment_preimage)
  THEN LET paymentHash == paymentHashFromPreimage(args.payment_preimage[1])
           got == IF context THEN cacheGet(entries, now, paymentHash)
                  ELSE [ret |-> Undefined, entries |-> entries]
       IN IF ~IsDefined(got.ret)
          THEN [unknown |-> TRUE, l402Auth |-> Undefined, args |-> args,
                entries |-> got.entries]
          ELSE [unknown |-> FALSE,
                l402Auth |-> Some([macaroon |-> got.ret[1].macaroon,
                                   preimage |-> args.payment_preimage[1]]),
                args |-> [args EXCEPT !.payment_preimage = Undefined],
                entries |-> got.entries]
  ELSE [unknown |-> FALSE, l402Auth |-> Undefined, args |-> args, entries |-> entries]

\* if (isL402Passthrough && isPaidTool && !l402Auth) typedArgs.allow_l402_quote = true
forceQuote(mode, tool, l402Auth, args) ==
  IF mode = "l402_passthrough" /\ tool.kind # "catalog_get" /\ ~IsDefined(l402Auth)
  THEN [args EXCEPT !.allow_l402_quote = TRUE]
  ELSE args

\* The callback's last block: the challenge of a 402 result is cached.
cacheChallenge(context, options, entries, now, result) ==
  IF ~result.ok /\ result.status = 402 /\ context
  THEN LET metadata == result.error.metadata
       IN IF Truthy(metadata.macaroon) /\ Truthy(metadata.payment_hash)
             /\ Truthy(metadata.invoice)
          THEN cacheSet(options, entries, now,
                        Challenge(metadata.macaroon[1], metadata.invoice[1],
                                  metadata.payment_hash[1],
                                  IF IsDefined(metadata.amount_sats)
                                  THEN metadata.amount_sats[1] ELSE 0),
                        Undefined)
          ELSE entries
  ELSE entries

\* A call of the callback: the tool, the arguments, and the entry the Map held
\* for the hash of its payment_preimage when the call came, with the clock then.
Called(tool, args) ==
  LET entry == IF IsDefined(args.payment_preimage)
               THEN MapGet(cEntries, paymentHashFromPreimage(args.payment_preimage[1]))
               ELSE Undefined
  IN [tool |-> tool, args |-> args,
      held |-> IF IsDefined(entry) THEN Some([entry |-> entry[1], now |-> cNow])
               ELSE Undefined]

\* A finished call: the call, the arguments and the credentials the callback
\* handed to executor.execute (nothing when it returned before), whether the
\* HTTP client sent a request and with which Authorization header, the
\* upstream's reply, and how the callback settled (the structuredContent it
\* returned or the error it rejected with).
Finished(call, request, l402Auth, sent, reply, outcome) ==
  [tool |-> call.tool, args |-> call.args, held |-> call.held,
   request |-> request, l402Auth |-> l402Auth,
   sent |-> sent.sent, authorization |-> sent.authorization, reply |-> reply,
   settled |-> outcome.settled, content |-> outcome.result, error |-> outcome.error,
   isError |-> outcome.settled = "rejected" \/ ~outcome.result[1].ok]

\* No request went upstream; a request went upstream with the header.
NothingSent == [sent |-> FALSE, authorization |-> Undefined]
Sent(authorization) == [sent |-> TRUE, authorization |-> authorization]

\* The log keeps the last call, and the call before it when that one was
\* answered with unknown_payment.
Logged(log, finished) ==
  IF log # <<>> /\ log[Len(log)].request = Undefined
  THEN <<log[Len(log)], finished>>
  ELSE <<finished>>

\* server.ts up to registry.initialize(): the token cache is created empty and
\* its cleanup timer started at once, and the tools are registered with the
\* payment mode of the configuration. The registry is handed the cache (always
\* by server.ts; the option is not required by the registry).
CallbackInit ==
  /\ tMode \in PaymentModes
  /\ tContext \in BOOLEAN
  /\ tRegistered = TRUE
  /\ tCall = Undefined
  /\ tLog = <<>>
  /\ cOptions \in CacheOptions
  /\ cEntries = <<>>
  /\ cCleanupTimer = startCleanup(FALSE, 0).cleanupTimer
  /\ cIntervals = startCleanup(FALSE, 0).intervals
  /\ cNow = 0
  /\ cLast = [op |-> "none", challenge |-> NoChallenge, ttlMs |-> Undefined, ret |-> Undefined,
              pre |-> <<>>]

\* The host calls a registered tool: the callback runs up to its await of
\* executor.execute, or returns unknown_payment.
CallTool ==
  \E tool \in CallbackTools, args \in CallbackArgs :
    LET call == Called(tool, args)
        resolved == resolveL402Auth(tMode, tool, args, tContext, cEntries, cNow)
        typedArgs == forceQuote(tMode, tool, resolved.l402Auth, resolved.args)
    IN /\ tRegistered
       /\ tCall = Undefined
       /\ cEntries' = resolved.entries
       /\ IF resolved.unknown
          THEN /\ tLog' = Logged(tLog, Finished(call, Undefined, Undefined, NothingSent,
                                                Undefined, Resolved(UnknownPayment)))
               /\ tCall' = Undefined
          ELSE /\ tCall' = Some([tool |-> tool, args |-> args, held |-> call.held,
                                 typedArgs |-> typedArgs,
                                 l402Auth |-> resolved.l402Auth])
               /\ tLog' = tLog
       /\ UNCHANGED <<tMode, tContext, tRegistered, cOptions, cCleanupTimer, cIntervals, cNow,
                      cLast>>

\* executor.execute(tool, typedArgs, l402Auth) for the call in hand: execute
\* takes the tool and the arguments, so the handler it selects is given the
\* typed arguments and nothing of the credentials passed third.
CallbackPlan ==
  Handle(tCall[1].tool, tCall[1].typedArgs, CallbackCatalog, CallbackCatalog)

\* The request options callJson hands the HTTP client for the call in hand,
\* and the headers the client resolves from them.
CallbackRequest == PostOptions(CallbackPlan)
CallbackHeaders == resolveHeaders(ClientOptions(tMode), CallbackRequest)

\* The rest of the callback once execute has settled: the challenge of a 402
\* result is cached and the result returned; a rejection passes through.
CallbackSettles(sent, reply, outcome) ==
  /\ cEntries' = IF outcome.settled = "resolved"
                 THEN cacheChallenge(tContext, cOptions, cEntries, cNow, outcome.result[1])
                 ELSE cEntries
  /\ tLog' = Logged(tLog, Finished(tCall[1], Some(tCall[1].typedArgs), tCall[1].l402Auth,
                                   sent, reply, outcome))
  /\ tCall' = Undefined
  /\ UNCHANGED <<tMode, tContext, tRegistered, cOptions, cCleanupTimer, cIntervals, cNow, cLast>>

\* executor.execute resolves: with the catalog; with the envelope of
\* missing_bearer_token when the client has no authorization strategy for the
\* request, which is then not sent; with the envelope of the upstream's reply;
\* or with the envelope of the error the client throws once the upstream
\* cannot be reached.
ExecutorResolves ==
  /\ IsDefined(tCall)
  /\ \/ /\ CallbackPlan.kind = "catalog"
        /\ CallbackSettles(NothingSent, Undefined, Resolved(CatalogResult(CallbackCatalog)))
     \/ /\ CallbackPlan.kind = "posts"
        /\ ~CallbackHeaders.ok
        /\ CallbackSettles(NothingSent, Undefined,
                           Resolved(fromRuntimeError(CallbackPlan.endpointPath, NoStrategyError,
                                                     CallbackPlan.model)))
     \/ /\ CallbackPlan.kind = "posts"
        /\ CallbackHeaders.ok
        /\ \E reply \in UpstreamReplies :
             CallbackSettles(Sent(CallbackHeaders.authorization), Some(reply),
                             Resolved(fromHttpResponse(CallbackPlan.endpointPath, reply,
                                                       CallbackPlan.model,
                                                       resolvePriceSats(CallbackPlan.endpoint,
                                                                        CallbackPlan.model))))
     \/ /\ CallbackPlan.kind = "posts"
        /\ CallbackHeaders.ok
        /\ \E error \in UpstreamErrors :
             CallbackSettles(Sent(CallbackHeaders.authorization), Undefined,
                             Resolved(fromRuntimeError(CallbackPlan.endpointPath, error,
                                                       CallbackPlan.model)))

\* executor.execute rejects, and so does the callback: the handler threw
\* before its upstream call (a required field is missing).
ExecutorRejects ==
  /\ IsDefined(tCall)
  /\ CallbackPlan.kind = "throws"
  /\ CallbackSettles(NothingSent, Undefined, executeOutcome(tCall[1].tool, CallbackPlan))

\* Time passes for the token cache.
CallbackTick ==
  /\ cNow < MaxClock
  /\ cNow' = cNow + 1
  /\ UNCHANGED <<callbackVars, cOptions, cEntries, cCleanupTimer, cIntervals, cLast>>

\* The interval timer that startCleanup armed fires: purgeExpired.
CallbackCleanupFires ==
  /\ cIntervals > 0
  /\ cEntries' = purgeExpired(cEntries, cNow)
  /\ UNCHANGED <<callbackVars, cOptions, cCleanupTimer, cIntervals, cNow, cLast>>

\* cleanup of server.ts: registry.dispose() removes the registered tools from
\* the host, l402TokenCache.dispose() clears the timer and the entries. A call
\* awaiting the executor goes on.
CallbackDispose ==
  /\ tRegistered' = FALSE
  /\ cCleanupTimer' = clearCleanup(cCleanupTimer, cIntervals).cleanupTimer
  /\ cIntervals' = clearCleanup(cCleanupTimer, cIntervals).intervals
  /\ cEntries' = <<>>
  /\ UNCHANGED <<tMode, tContext, tCall, tLog, cOptions, cNow, cLast>>

\* ------------------------------------- catalog validation (catalog.ts)

\* A JSON value where a number is expected: a number, or something else.
Num(n) == [type |-> "number", value |-> n]
NotANumber == [type |-> "string", value |-> 0]

\* An entry of an endpoint's `models` record, in the record's key order.
ModelPrice(model, priceSats) == [model |-> model, price_sats |-> priceSats]

\* A CatalogEndpoint as received: models and price_sats absent (<<>>) or there.
CatalogEndpoint(path, method, priceType, models, priceSats) ==
  [path |-> path, method |-> method, price_type |-> priceType, models |-> models,
   price_sats |-> priceSats]

RawModels ==
  {Undefined,
   Some(<<>>),
   Some(<<ModelPrice("_default", Num(5))>>),
   Some(<<ModelPrice("gpt-4o-mini", Num(30)), ModelPrice("gpt-4o", Num(90))>>),
   Some(<<ModelPrice("gpt-4o", NotANumber)>>)}
RawPrices == {Undefined, Some(Num(21)), Some(NotANumber)}
PriceTypes == {"per_model", "flat"}

\* The paths of a document's endpoints, by position: not in sorted order.
CatalogPaths == <<PathResponses, PathChat, PathImagesGen, PathVideo>>

\* The pricing shapes an endpoint of a catalog document may have.
PricingShapes == [price_type : PriceTypes, models : RawModels, price_sats : RawPrices]

\* A catalog document: apis.openai.endpoints with n endpoints of the given shapes.
RawCatalog(n, shape) ==
  [k \in 1..n |-> CatalogEndpoint(CatalogPaths[k], "post", shape[k].price_type,
                                  shape[k].models, shape[k].price_sats)]

\* endpointSchema: price_type in the enum, every model price and price_sats a number.
endpointSchemaAccepts(endpoint) ==
  /\ endpoint.price_type \in {"per_model", "flat"}
  /\ IsDefined(endpoint.models) =>
       \A k \in 1..Len(endpoint.models[1]) : endpoint.models[1][k].price_sats.type = "number"
  /\ IsDefined(endpoint.price_sats) => endpoint.price_sats[1].type = "number"

catalogSchemaAccepts(input) == \A k \in 1..Len(input) : endpointSchemaAccepts(input[k])

ParseThrew(error, path) == [ok |-> FALSE, error |-> error, path |-> path, catalog |-> <<>>]
ParseReturned(catalog) == [ok |-> TRUE, error |-> "", path |-> <<>>, catalog |-> catalog]

\* A validation without the check of flat endpoints.
PricingError_FlatUnchecked(endpoint) ==
  IF endpoint.price_type = "per_model"
       /\ (~IsDefined(endpoint.models) \/ Len(endpoint.models[1]) = 0)
  THEN "is per_model but has no models"
  ELSE ""

\* The pricing checks of parseCatalog on one endpoint: the error thrown, or "".
PricingError(endpoint) ==
  IF endpoint.price_type = "per_model"
       /\ (~IsDefined(endpoint.models) \/ Len(endpoint.models[1]) = 0)
  THEN "is per_model but has no models"
  ELSE IF endpoint.price_type = "flat"
           /\ ~(IsDefined(endpoint.price_sats) /\ endpoint.price_sats[1].type = "number")
  THEN "is flat but has no price_sats"
  ELSE ""

parseCatalog(input) ==
  LET failing == SelectSeq(input, LAMBDA e : PricingError(e) # "")
  IN IF ~catalogSchemaAccepts(input) THEN ParseThrew("ZodError", <<>>)
     ELSE IF failing # <<>> THEN ParseThrew(PricingError(failing[1]), failing[1].path)
     ELSE ParseReturned(input)

\* String.prototype.toUpperCase on the HTTP methods the catalogs use.
toUpperCase(s) == CASE s = "post" -> "POST"
                    [] s = "get" -> "GET"
                    [] OTHER -> s

\* localeCompare on the paths and model names used here.
PathRank(path) ==
  CASE path = PathChat -> 1
    [] path = PathImagesGen -> 2
    [] path = PathResponses -> 3
    [] path = PathVideo -> 4
ModelRank(model) ==
  CASE model = "_default" -> 1
    [] model = "gpt-4o" -> 2
    [] model = "gpt-4o-mini" -> 3

\* Array.prototype.sort by the rank of each element's key.
RECURSIVE SortByRank(_, _)
SortByRank(seq, rank) ==
  IF seq = <<>> THEN <<>>
  ELSE LET least == CHOOSE k \in 1..Len(seq) :
                      \A j \in 1..Len(seq) :
                        rank[k] < rank[j] \/ (rank[k] = rank[j] /\ k <= j)
           rest == [j \in 1..(Len(seq) - 1) |-> IF j < least THEN seq[j] ELSE seq[j + 1]]
           restRank == [j \in 1..(Len(seq) - 1) |-> IF j < least THEN rank[j] ELSE rank[j + 1]]
       IN <<seq[least]>> \o SortByRank(rest, restRank)

\* An EndpointDescriptor, reduced to its path, method and pricing fields.
PricedDescriptor(endpoint) ==
  LET modelPrices == IF IsDefined(endpoint.models) THEN endpoint.models[1] ELSE <<>>
      named == SelectSeq(modelPrices, LAMBDA m : m.model # "_default")
      names == [k \in 1..Len(named) |-> named[k].model]
      models == SortByRank(names, [k \in 1..Len(names) |-> ModelRank(names[k])])
  IN [apiKey |-> "openai", path |-> endpoint.path, method |-> toUpperCase(endpoint.method),
      priceType |-> endpoint.price_type, models |-> models, modelPrices |-> modelPrices,
      defaultModel |-> IF models = <<>> THEN Undefined ELSE Some(models[1]),
      flatPriceSats |-> endpoint.price_sats]

normalizeCatalog(catalog) ==
  LET described == [k \in 1..Len(catalog) |-> PricedDescriptor(catalog[k])]
      endpoints == SortByRank(described,
                              [k \in 1..Len(described) |-> PathRank(described[k].path)])
  IN [raw |-> catalog,
      endpoints |-> endpoints,
      hash |-> [k \in 1..Len(endpoints) |->
                  [apiKey |-> endpoints[k].apiKey, path |-> endpoints[k].path,
                   method |-> endpoints[k].method, priceType |-> endpoints[k].priceType,
                   flatPriceSats |-> endpoints[k].flatPriceSats, models |-> endpoints[k].models]],
      summary |-> [apiCount |-> 1,
                   endpointCount |-> Len(endpoints),
                   perModelCount |-> Len(SelectSeq(endpoints, LAMBDA e : e.priceType = "per_model")),
                   flatCount |-> Len(SelectSeq(endpoints, LAMBDA e : e.priceType = "flat"))]]

\* parseCatalog is handed any document of up to MaxCatalogEndpoints endpoints.
ParseInit ==
  /\ \E n \in 0..MaxCatalogEndpoints :
       \E shape \in [1..n -> PricingShapes] : kInput = RawCatalog(n, shape)
  /\ kParsed = Undefined
  /\ kState = Undefined

\* parseCatalog(input)
ParseCatalog ==
  /\ kParsed = Undefined
  /\ kParsed' = Some(parseCatalog(kInput))
  /\ UNCHANGED <<kInput, kState>>

\* normalizeCatalog(parsed), for a catalog parseCatalog returned.
NormalizeCatalog ==
  /\ kParsed # Undefined
  /\ kParsed[1].ok
  /\ kState = Undefined
  /\ kState' = Some(normalizeCatalog(kParsed[1].catalog))
  /\ UNCHANGED <<kInput, kParsed>>

\* ------------------------------------------------------- specifications

\* The registry alone: no HTTP call is made.
HttpIdle ==
  /\ hOptions = [bearerToken |-> Some(Str("tok")), l402Handler |-> FALSE, maxRetries |-> 0]
  /\ hCall = NoCallYet
  /\ hPc = "idle"
  /\ hAttempt = 0
  /\ hFetches = <<>>
  /\ hHistory = <<>>
  /\ hResponse = Undefined
  /\ hOriginal = Undefined
  /\ hPaid = <<>>
  /\ hSleeps = <<>>
  /\ hReplay = Undefined
  /\ hResult = Undefined
  /\ hTimers = <<>>

\* The HTTP client alone: the registry stays as constructed.
RegistryIdle ==
  /\ config = Config("compact", TRUE, FALSE, FALSE, FALSE)
  /\ toolState = Undefined
  /\ catalogState = Undefined
  /\ registeredTools = <<>>
  /\ hostTools = {}
  /\ connected = FALSE
  /\ toolListChangedCount = 0
  /\ inflight = <<>>
  /\ started = 0
  /\ last = Last("none", NoCall, FALSE, Undefined, <<>>)

\* The token cache as constructed, never used.
CacheIdle ==
  /\ cOptions = [maxEntries |-> 1, defaultTtlMs |-> 2]
  /\ cEntries = <<>>
  /\ cCleanupTimer = FALSE
  /\ cIntervals = 0
  /\ cNow = 0
  /\ cLast = [op |-> "none", challenge |-> NoChallenge, ttlMs |-> Undefined, ret |-> Undefined,
              pre |-> <<>>]

\* The catalog manager as constructed, never used.
ManagerIdle ==
  /\ gTtlMs = 1
  /\ gState = Undefined
  /\ gLastFetchMs = 0
  /\ gInflight = Undefined
  /\ gNow = 0
  /\ gFetches = <<>>
  /\ gCalls = <<>>

\* The executor as constructed, never called.
ExecutorIdle ==
  /\ xOptions = [bearerToken |-> Some(Str("tok")), l402Handler |-> FALSE]
  /\ xCatalog = CatResponses
  /\ xCall = Undefined
  /\ xPc = "idle"
  /\ xPlan = Undefined
  /\ xUpstream = Undefined
  /\ xOutcome = Undefined

\* No response converted.
ResultsIdle ==
  /\ rResponse = [status |-> 200, headers |-> ResultHeaders(Undefined, Undefined),
                  data |-> ObjectData(NoFields)]
  /\ rResult = Undefined

\* No catalog parsed.
ParseIdle ==
  /\ kInput = <<>>
  /\ kParsed = Undefined
  /\ kState = Undefined

notParse ==
  <<regVars, httpVars, cacheVars, managerVars, execVars, resultVars, challengeVars, synthVars,
    callbackVars>>

\* No tool state synthesized outside the registry.
SynthesisIdle ==
  /\ sCatalog = <<>>
  /\ sConfig = Config("compact", TRUE, FALSE, FALSE, FALSE)
  /\ sToolState = Undefined
  /\ sPrevious = Undefined

\* No tool called.
CallbackIdle ==
  /\ tMode = "bearer"
  /\ tContext = FALSE
  /\ tRegistered = FALSE
  /\ tCall = Undefined
  /\ tLog = <<>>

notCallback ==
  <<regVars, httpVars, managerVars, execVars, resultVars, challengeVars, parseVars,
    synthVars>>

notSynthesis ==
  <<regVars, httpVars, cacheVars, managerVars, execVars, resultVars, challengeVars, parseVars,
    callbackVars>>

\* No challenge parsed.
ChallengeIdle ==
  /\ lHeaders = NoHeaders
  /\ lBody = NoData
  /\ lResult = Undefined

notRegistry ==
  <<httpVars, cacheVars, managerVars, execVars, resultVars, challengeVars, parseVars,
    synthVars, callbackVars>>
notHttp ==
  <<regVars, cacheVars, managerVars, execVars, resultVars, challengeVars, parseVars,
    synthVars, callbackVars>>
notCache ==
  <<regVars, httpVars, managerVars, execVars, resultVars, challengeVars, parseVars,
    synthVars, callbackVars>>
notManager ==
  <<regVars, httpVars, cacheVars, execVars, resultVars, challengeVars, parseVars,
    synthVars, callbackVars>>
notExecutor ==
  <<regVars, httpVars, cacheVars, managerVars, resultVars, challengeVars, parseVars,
    synthVars, callbackVars>>
notResults ==
  <<regVars, httpVars, cacheVars, managerVars, execVars, challengeVars, parseVars,
    synthVars, callbackVars>>
notChallenge ==
  <<regVars, httpVars, cacheVars, managerVars, execVars, resultVars, parseVars,
    synthVars, callbackVars>>

InitRegistry ==
  /\ RegInit /\ HttpIdle /\ CacheIdle /\ ManagerIdle /\ ExecutorIdle
  /\ ResultsIdle /\ ChallengeIdle /\ ParseIdle
  /\ SynthesisIdle /\ CallbackIdle
NextRegistry ==
  \/ initialize /\ UNCHANGED notRegistry
  \/ syncTools /\ UNCHANGED notRegistry
  \/ SyncResolve /\ UNCHANGED notRegistry
  \/ SyncReject /\ UNCHANGED notRegistry
  \/ refreshCatalog /\ UNCHANGED notRegistry
  \/ Dispose /\ UNCHANGED notRegistry
  \/ ServerConnect /\ UNCHANGED notRegistry
  \/ ServerClose /\ UNCHANGED notRegistry
SpecRegistry == InitRegistry /\ [][NextRegistry]_vars

InitHttp ==
  /\ HttpInit /\ RegistryIdle /\ CacheIdle /\ ManagerIdle /\ ExecutorIdle
  /\ ResultsIdle /\ ChallengeIdle /\ ParseIdle
  /\ SynthesisIdle /\ CallbackIdle
NextHttp ==
  \/ postJson /\ UNCHANGED notHttp
  \/ postMultipart /\ UNCHANGED notHttp
  \/ rawPost /\ UNCHANGED notHttp
  \/ FetchResolves /\ UNCHANGED notHttp
  \/ FetchRejects /\ UNCHANGED notHttp
  \/ BodyRead /\ UNCHANGED notHttp
  \/ BodyFails /\ UNCHANGED notHttp
  \/ ChallengeRead /\ UNCHANGED notHttp
  \/ HandlerResolves /\ UNCHANGED notHttp
  \/ HandlerRejects /\ UNCHANGED notHttp
  \/ ReplayResolves /\ UNCHANGED notHttp
  \/ ReplayRejects /\ UNCHANGED notHttp
  \/ ReplayBodyRead /\ UNCHANGED notHttp
  \/ ReplayBodyFails /\ UNCHANGED notHttp
  \/ SleepEnds /\ UNCHANGED notHttp
SpecHttp == InitHttp /\ [][NextHttp]_vars

\* Every await of a call in progress settles: the fetch, the body read, the
\* handler and the backoff sleep.
HttpSettles ==
  /\ \/ FetchResolves \/ FetchRejects \/ BodyRead \/ BodyFails \/ ChallengeRead
     \/ HandlerResolves \/ HandlerRejects \/ ReplayResolves \/ ReplayRejects
     \/ ReplayBodyRead \/ ReplayBodyFails \/ SleepEnds
  /\ UNCHANGED notHttp
\* The client of l402 auto-pay: no bearer token, with or without a handler.
InitHttpFair == InitHttp /\ hOptions.bearerToken = Undefined
SpecHttpFair == InitHttpFair /\ [][NextHttp]_vars /\ WF_vars(HttpSettles)

InitCache ==
  /\ CacheInit /\ RegistryIdle /\ HttpIdle /\ ManagerIdle /\ ExecutorIdle
  /\ ResultsIdle /\ ChallengeIdle /\ ParseIdle
  /\ SynthesisIdle /\ CallbackIdle
NextCache ==
  \/ CacheSet /\ UNCHANGED notCache
  \/ CacheGet /\ UNCHANGED notCache
  \/ CachePurgeExpired /\ UNCHANGED notCache
  \/ CacheStartCleanup /\ UNCHANGED notCache
  \/ CacheCleanupFires /\ UNCHANGED notCache
  \/ CacheDispose /\ UNCHANGED notCache
  \/ CacheTick /\ UNCHANGED notCache
SpecCache == InitCache /\ [][NextCache]_vars

InitManager ==
  /\ ManagerInit /\ RegistryIdle /\ HttpIdle /\ CacheIdle /\ ExecutorIdle
  /\ ResultsIdle /\ ChallengeIdle /\ ParseIdle
  /\ SynthesisIdle /\ CallbackIdle
NextManager ==
  \/ GetState /\ UNCHANGED notManager
  \/ CatalogFetchResolves /\ UNCHANGED notManager
  \/ CatalogFetchRejects /\ UNCHANGED notManager
  \/ InflightFinally /\ UNCHANGED notManager
  \/ InflightSettles /\ UNCHANGED notManager
  \/ ManagerTick /\ UNCHANGED notManager
SpecManager == InitManager /\ [][NextManager]_vars

InitExecutor ==
  /\ ExecutorInit /\ RegistryIdle /\ HttpIdle /\ CacheIdle /\ ManagerIdle
  /\ ResultsIdle /\ ChallengeIdle /\ ParseIdle
  /\ SynthesisIdle /\ CallbackIdle
NextExecutor ==
  \/ Execute /\ UNCHANGED notExecutor
  \/ CatalogReplaced /\ UNCHANGED notExecutor
  \/ UploadSettles /\ UNCHANGED notExecutor
  \/ PostResolves /\ UNCHANGED notExecutor
  \/ PostRejects /\ UNCHANGED notExecutor
  \/ RefreshResolves /\ UNCHANGED notExecutor
  \/ RefreshRejects /\ UNCHANGED notExecutor
SpecExecutor == InitExecutor /\ [][NextExecutor]_vars

InitResults ==
  /\ ResultsInit /\ RegistryIdle /\ HttpIdle /\ CacheIdle /\ ManagerIdle /\ ExecutorIdle
  /\ ChallengeIdle /\ ParseIdle
  /\ SynthesisIdle /\ CallbackIdle
NextResults ==
  \/ FromHttpResponse /\ UNCHANGED notResults
SpecResults == InitResults /\ [][NextResults]_vars

InitChallenge ==
  /\ ChallengeInit /\ RegistryIdle /\ HttpIdle /\ CacheIdle /\ ManagerIdle /\ ExecutorIdle
  /\ ResultsIdle /\ ParseIdle
  /\ SynthesisIdle /\ CallbackIdle
NextChallenge ==
  \/ ParseL402Challenge /\ UNCHANGED notChallenge
SpecChallenge == InitChallenge /\ [][NextChallenge]_vars

InitParse ==
  /\ ParseInit /\ RegistryIdle /\ HttpIdle /\ CacheIdle /\ ManagerIdle /\ ExecutorIdle
  /\ ResultsIdle /\ ChallengeIdle
  /\ SynthesisIdle /\ CallbackIdle
NextParse ==
  \/ ParseCatalog /\ UNCHANGED notParse
  \/ NormalizeCatalog /\ UNCHANGED notParse
SpecParse == InitParse /\ [][NextParse]_vars

InitSynthesis ==
  /\ SynthesisInit /\ RegistryIdle /\ HttpIdle /\ CacheIdle /\ ManagerIdle /\ ExecutorIdle
  /\ ResultsIdle /\ ChallengeIdle /\ ParseIdle /\ CallbackIdle
NextSynthesis ==
  \/ BuildToolState /\ UNCHANGED notSynthesis
  \/ CatalogChanges /\ UNCHANGED notSynthesis
  \/ ProfileChanges /\ UNCHANGED notSynthesis
SpecSynthesis == InitSynthesis /\ [][NextSynthesis]_vars

InitCallback ==
  /\ CallbackInit /\ RegistryIdle /\ HttpIdle /\ ManagerIdle /\ ExecutorIdle
  /\ ResultsIdle /\ ChallengeIdle /\ ParseIdle /\ SynthesisIdle
NextCallback ==
  \/ CallTool /\ UNCHANGED notCallback
  \/ ExecutorResolves /\ UNCHANGED notCallback
  \/ ExecutorRejects /\ UNCHANGED notCallback
  \/ CallbackTick /\ UNCHANGED notCallback
  \/ CallbackCleanupFires /\ UNCHANGED notCallback
  \/ CallbackDispose /\ UNCHANGED notCallback
SpecCallback == InitCallback /\ [][NextCallback]_vars

\* ------------------------------------------------- registry: properties

\* The operation that completed last was a syncTools whose catalog fetch resolved.
SyncCompleted == last.op = "sync"
\* ... and a ToolState was stored when it resumed.
SyncAfterFirst == SyncCompleted /\ IsDefined(last.pre.toolState)
\* ... whose signature equals, or differs from, the recomputed one.
SyncSameSignature ==
  SyncAfterFirst /\ last.next[1].signature = last.pre.toolState[1].signature
SyncNewSignature ==
  SyncAfterFirst /\ last.next[1].signature # last.pre.toolState[1].signature

OpsOfKind(ops, kind) == SelectSeq(ops, LAMBDA o : o[1] = kind)
NamesOf(ops) == [k \in 1..Len(ops) |-> ops[k][2]]
ToolNameSeq(ts) == [k \in 1..Len(ts.tools) |-> ts.tools[k].name]

\* C1: a syncTools that finds a stored ToolState and recomputes the same
\* signature returns false, removes no handle, registers no tool, leaves the
\* stored ToolState as it was and sends no list-changed notification, whatever
\* forceRefresh and emitNotification are.
C1_SameSignatureSyncIsNoop ==
  SyncSameSignature =>
    /\ last.ret = FALSE
    /\ last.ops = <<>>
    /\ registeredTools = last.pre.registeredTools
    /\ hostTools = last.pre.hostTools
    /\ toolState = last.pre.toolState
    /\ toolListChangedCount = last.pre.toolListChangedCount

\* A same-signature sync that asked for the notification on a connected host,
\* with handles registered, and whose catalog is not the one stored before.
C1_Witness ==
  /\ SyncSameSignature
  /\ last.call.emitNotification /\ last.call.forceRefresh /\ last.pre.connected
  /\ last.pre.registeredTools # <<>>
  /\ catalogState # last.pre.catalogState
  /\ last.ret = FALSE

\* C2 as stated: every syncTools after the first that recomputes a different
\* signature returns true and sends exactly one list-changed notification.
C2_AlwaysOneNotification ==
  SyncNewSignature =>
    /\ last.ret = TRUE
    /\ toolListChangedCount = last.pre.toolListChangedCount + 1

\* C2 amended: every syncTools after the first that recomputes a different
\* signature returns true; it sends exactly one list-changed notification when
\* it was called with emitNotification=true and the host is connected, and
\* none otherwise.
C2_OneNotificationWhenAskedAndConnected ==
  SyncNewSignature =>
    /\ last.ret = TRUE
    /\ toolListChangedCount =
         last.pre.toolListChangedCount
         + (IF last.call.emitNotification /\ last.pre.connected THEN 1 ELSE 0)

\* A changed sync on a connected host that sent its one notification.
C2_Witness ==
  /\ SyncNewSignature
  /\ last.call.emitNotification /\ last.pre.connected
  /\ last.ret = TRUE
  /\ toolListChangedCount = last.pre.toolListChangedCount + 1

\* C3: initialize() asks the catalog provider for a refresh; when it finds no
\* stored ToolState it registers, and whenever it registers it registers exactly
\* one handler per tool of the synthesized ToolState, in order; it never sends
\* a list-changed notification, connected or not, first call or repeated.
C3_InitializeRegistersSilently ==
  /\ \A i \in 1..Len(inflight) : inflight[i].init => inflight[i].refresh
  /\ (SyncCompleted /\ last.call.init) =>
       /\ last.call.refresh
       /\ ~IsDefined(last.pre.toolState) => last.ret = TRUE
       /\ last.ret = TRUE =>
            /\ NamesOf(OpsOfKind(last.ops, "register")) = ToolNameSeq(last.next[1])
            /\ registeredTools = ToolNameSeq(last.next[1])
            /\ hostTools = ToolNames(last.next[1])
       /\ toolListChangedCount = last.pre.toolListChangedCount

\* A repeated initialize on a connected host that found a different signature
\* and re-registered the tools.
C3_Witness ==
  /\ SyncCompleted /\ last.call.init
  /\ SyncNewSignature
  /\ last.pre.connected
  /\ last.ret = TRUE
  /\ Len(registeredTools) >= 2

\* C4: a syncTools that detects a changed signature removes every handle held
\* before, all removals coming before the first registration, then registers
\* exactly one handle per tool of the new ToolState and stores that ToolState;
\* afterwards the host's registered names are exactly the new ToolState's names
\* and no name only the old list had is still registered.
C4_ChangedSyncReplacesWholesale ==
  (SyncCompleted /\ last.ret = TRUE) =>
    /\ NamesOf(OpsOfKind(last.ops, "remove")) = last.pre.registeredTools
    /\ NamesOf(OpsOfKind(last.ops, "register")) = ToolNameSeq(last.next[1])
    /\ \A i, j \in 1..Len(last.ops) :
         (last.ops[i][1] = "remove" /\ last.ops[j][1] = "register") => i < j
    /\ Len(registeredTools) = Len(last.next[1].tools)
    /\ toolState = last.next
    /\ hostTools = ToolNames(last.next[1])
    /\ (Range(last.pre.registeredTools) \ ToolNames(last.next[1])) \cap hostTools = {}

\* A changed sync that dropped a tool the old list had and added one it lacked.
C4_Witness ==
  /\ SyncNewSignature /\ last.ret = TRUE
  /\ Range(last.pre.registeredTools) \ ToolNames(last.next[1]) # {}
  /\ ToolNames(last.next[1]) \ Range(last.pre.registeredTools) # {}

\* C5: dispose() removes every handle the registry holds, whatever state the
\* registry is in, so that right after it no tool of this registry is
\* registered on the host; it sends no notification.
C5_DisposeUnregistersEverything ==
  last.op = "dispose" =>
    /\ NamesOf(last.ops) = last.pre.registeredTools
    /\ \A k \in 1..Len(last.ops) : last.ops[k][1] = "remove"
    /\ registeredTools = <<>>
    /\ hostTools = {}
    /\ toolListChangedCount = last.pre.toolListChangedCount

\* A dispose of a synced registry that held handles on a connected host.
C5_Witness ==
  /\ last.op = "dispose"
  /\ Len(last.pre.registeredTools) >= 2
  /\ last.pre.hostTools # {}
  /\ last.pre.connected
  /\ hostTools = {}

\* ------------------------------------------------ HTTP client: properties

CallStarted == hPc # "idle"
CallDone == hPc = "done"
PrimaryFetches == SelectSeq(hFetches, LAMBDA f : ~f.replay)
ReplayFetches == SelectSeq(hFetches, LAMBDA f : f.replay)
MissingBearerToken ==
  [kind |-> "error", status |-> 401, headers |-> NoHeaders, data |-> NoData,
   code |-> "missing_bearer_token"]
BearerConfigured ==
  IsDefined(hOptions.bearerToken) /\ hOptions.bearerToken[1] # <<>>
\* The call went out, and every attempt of the retry loop carried this Authorization.
SentWith(authorization) ==
  /\ hFetches # <<>>
  /\ \A k \in 1..Len(hFetches) :
       ~hFetches[k].replay => hFetches[k].headers.authorization = authorization
  /\ ~hFetches[1].replay
  /\ ~(IsDefined(hResult) /\ hResult[1].code = "missing_bearer_token")

\* C6: the Authorization of a postJson / postMultipart / rawPost call follows a
\* fixed priority: the caller's L402 credentials give `L402 <macaroon>:<preimage>`;
\* else a configured bearer token gives `Bearer <token>`; else a configured
\* auto-pay handler gives no Authorization header; else allowL402Quote gives no
\* Authorization header; else the call fails with missing_bearer_token.
C6_AuthorizationPriority ==
  CallStarted =>
    LET requestOptions == hCall.requestOptions
    IN /\ hCall.method \in {"postJson", "postMultipart", "rawPost"}
       /\ IF IsDefined(requestOptions.l402Auth)
          THEN SentWith(Some(<<"L402 ">> \o requestOptions.l402Auth[1].macaroon
                             \o <<":">> \o requestOptions.l402Auth[1].preimage))
          ELSE IF BearerConfigured
          THEN SentWith(Some(<<"Bearer ">> \o hOptions.bearerToken[1]))
          ELSE IF hOptions.l402Handler
          THEN SentWith(Undefined)
          ELSE IF requestOptions.allowL402Quote
          THEN SentWith(Undefined)
          ELSE hFetches = <<>> /\ hResult = Some(MissingBearerToken)

\* C6: a call with the caller's L402 credentials, made by a client that has a
\* bearer token, went out with the L402 Authorization.
C6_Witness ==
  /\ CallStarted
  /\ IsDefined(hCall.requestOptions.l402Auth)
  /\ hOptions.bearerToken = Some(<<"tok">>)
  /\ hFetches # <<>>
  /\ hFetches[1].headers.authorization = Some(<<"L402 ", "macC", ":", "preC">>)

NoStrategy ==
  /\ ~IsDefined(hCall.requestOptions.l402Auth)
  /\ ~BearerConfigured
  /\ ~hOptions.l402Handler
  /\ ~hCall.requestOptions.allowL402Quote

\* C7: a call with no L402 credentials, no bearer token, no auto-pay handler
\* and no quote opt-in fails with missing_bearer_token (401) before any network
\* request: no fetch, no backoff, no payment.
C7_FailsFastWithoutStrategy ==
  (CallStarted /\ NoStrategy) =>
    /\ CallDone
    /\ hResult = Some(MissingBearerToken)
    /\ hFetches = <<>>
    /\ hHistory = <<>>
    /\ hSleeps = <<>>
    /\ hPaid = <<>>
    /\ hAttempt = 0

\* C7: such a call was made, by a client that would have retried a failure.
C7_Witness ==
  /\ CallStarted
  /\ NoStrategy
  /\ hOptions.maxRetries >= 1
  /\ hResult = Some(MissingBearerToken)

\* The k-th attempt of the retry loop got a response (and, where the client has
\* read its body, read it).
GotResponse(k) == hHistory[k].outcome = "response"
RetryableStatus(status) == status = 429 \/ status >= 500
\* The k-th attempt was followed by a backoff and another attempt.
Retried(k) == (k - 1) \in Range(hSleeps)
AttemptsBounded ==
  /\ Len(hHistory) <= hOptions.maxRetries + 1
  /\ Len(PrimaryFetches) <= hOptions.maxRetries + 1
  /\ hFetches # <<>> =>
       Len(PrimaryFetches) = Len(hSleeps) + (IF hPc = "sleeping" THEN 0 ELSE 1)
RetriedExactlyOnRetryable ==
  \A k \in 1..Len(hHistory) :
    GotResponse(k) =>
      (Retried(k) <=> (RetryableStatus(hHistory[k].status) /\ k < hOptions.maxRetries + 1))
\* The call is over and its last attempt's response was received in full.
EndedOnResponse ==
  /\ CallDone
  /\ hHistory # <<>>
  /\ GotResponse(Len(hHistory))
  /\ hHistory[Len(hHistory)].body = "read"
\* The last attempt's response as the client normalises it.
LastAttemptResponse ==
  IF IsDefined(hOriginal)
  THEN [kind |-> "response", status |-> 402, headers |-> hOriginal[1].headers,
        data |-> hOriginal[1].data, code |-> ""]
  ELSE [kind |-> "response", status |-> hResponse[1].status,
        headers |-> hResponse[1].headers, data |-> parseResponseData(hResponse[1]),
        code |-> ""]
ReturnsLastAttempt ==
  /\ hResult = Some(LastAttemptResponse)
  /\ hResult[1].status = hHistory[Len(hHistory)].status
  /\ Len(hFetches) = Len(hHistory)
FinalRetryableIsReturned ==
  (EndedOnResponse /\ RetryableStatus(hHistory[Len(hHistory)].status)) =>
    /\ Len(hHistory) = hOptions.maxRetries + 1
    /\ hResult[1].kind = "response"
    /\ hResult[1].status = hHistory[Len(hHistory)].status

\* C8 as stated: a response is retried exactly when its status is 429 or >= 500
\* and attempts are left; any other response, a 402 included, is what the call
\* returns after that single attempt; attempts never exceed maxRetries+1.
C8_NonRetryableAlwaysReturned ==
  /\ AttemptsBounded
  /\ RetriedExactlyOnRetryable
  /\ FinalRetryableIsReturned
  /\ EndedOnResponse => ReturnsLastAttempt

\* The replay's response was received in full.
ReplayAnswered ==
  IsDefined(hReplay) /\ hReplay[1].outcome = "response" /\ hReplay[1].body = "read"

\* The call ends on a 402 the auto-pay handler was called for: the retry loop
\* makes no further attempt, the handler is called once and the request
\* replayed at most once; the call returns the replay's response when one was
\* received, and the 402 itself when the handler threw or the replay failed.
AutoPayOutcomeReturned ==
  /\ hOptions.l402Handler
  /\ hHistory[Len(hHistory)].status = 402
  /\ ~Retried(Len(hHistory))
  /\ Len(hPaid) = 1
  /\ Len(ReplayFetches) <= 1
  /\ Len(hFetches) = Len(hHistory) + Len(ReplayFetches)
  /\ IF ReplayAnswered
     THEN /\ Len(ReplayFetches) = 1
          /\ hResult = Some([kind |-> "response", status |-> hReplay[1].status,
                             headers |-> hResponse[1].headers,
                             data |-> parseResponseData(hResponse[1]), code |-> ""])
     ELSE /\ hResult = Some(LastAttemptResponse)
          /\ hResult[1].status = 402

\* C8: a response is retried exactly when its status is 429 or >= 500 and
\* attempts are left; any other response is never retried and is what the call
\* returns after that single attempt, except a 402 that the auto-pay handler
\* takes up (a payment was requested for its challenge): that 402 is not
\* retried by the loop either, the request is replayed at most once, and the
\* call returns the replay's response, or the 402 when the handler threw or
\* the replay failed; a 429/5xx on the final attempt is returned as a normal
\* response; attempts never exceed maxRetries+1.
C8_RetryOnlyOn429And5xx ==
  /\ AttemptsBounded
  /\ RetriedExactlyOnRetryable
  /\ FinalRetryableIsReturned
  /\ (EndedOnResponse /\ hPaid = <<>>) => ReturnsLastAttempt
  /\ (EndedOnResponse /\ hPaid # <<>>) => AutoPayOutcomeReturned

\* C8: a 503 was retried until the last attempt, whose 429 the call returned;
\* the client would not have retried a third time.
C8_Witness ==
  /\ EndedOnResponse
  /\ hOptions.maxRetries = 1
  /\ Len(hHistory) = 2
  /\ hHistory[1].status = 503
  /\ hHistory[2].status = 429
  /\ hResult[1].kind = "response"
  /\ hResult[1].status = 429

\* The challenge each 402 of the model carries, as the header and body spell it.
ChallengeOf(response) ==
  IF response = Pay402
  THEN Some([macaroon |-> <<"mac1">>, invoice |-> <<"lnbc1">>,
             paymentHash |-> <<"ph1">>, amountSats |-> 30])
  ELSE IF response = Pay402Token
  THEN Some([macaroon |-> <<"mac2">>, invoice |-> <<"lnbc2">>,
             paymentHash |-> <<"ph2">>, amountSats |-> 50])
  ELSE Undefined
\* The handler has been called for the 402 of the current attempt.
Paying == hPc = "paying"
\* C9: with an auto-pay handler, a 402 with a parsable L402 challenge has the
\* handler called with that challenge; the request is replayed exactly once with
\* `L402 <challenge macaroon>:<returned preimage>` and its other headers as they
\* were; the replay's response, whatever its status, is what the call yields; the
\* replay is not retried and no second payment is requested.
C9_ReplayOnceAndReturnIt ==
  /\ Len(hPaid) <= 1
  /\ Len(ReplayFetches) <= 1
  /\ Paying =>
       /\ hOptions.l402Handler
       /\ hResponse[1].status = 402
       /\ IsDefined(ChallengeOf(hResponse[1]))
       /\ hPaid = <<ChallengeOf(hResponse[1])[1]>>
  /\ (CallStarted /\ hOptions.l402Handler /\ hHistory # <<>>
        /\ hHistory[Len(hHistory)] = [outcome |-> "response", status |-> 402, body |-> "read"]
        /\ IsDefined(hOriginal) /\ IsDefined(hOriginal[1].challenge)) =>
       hPaid = <<hOriginal[1].challenge[1]>>
  /\ ReplayFetches # <<>> =>
       /\ hPaid # <<>>
       /\ hFetches[Len(hFetches)].replay
       /\ \E preimage \in Preimages :
            hFetches[Len(hFetches)].headers =
              [authorization |-> Some(<<"L402 ">> \o hPaid[1].macaroon \o <<":">> \o preimage),
               contentType |-> hCall.headers.contentType]
       /\ Len(hSleeps) = Len(hHistory) - 1
  /\ ReplayAnswered =>
       /\ CallDone
       /\ hResult = Some([kind |-> "response", status |-> hReplay[1].status,
                          headers |-> hResponse[1].headers,
                          data |-> parseResponseData(hResponse[1]), code |-> ""])
       /\ hResponse[1].status = hReplay[1].status

\* C9: the replay of the first attempt got a 429 while retries were left, and
\* the 429 is what the call returned.
C9_Witness ==
  /\ ReplayAnswered
  /\ hReplay[1].status = 429
  /\ hOptions.maxRetries >= 1
  /\ hAttempt = 0
  /\ hPaid = <<[macaroon |-> <<"mac2">>, invoice |-> <<"lnbc2">>,
               paymentHash |-> <<"ph2">>, amountSats |-> 50]>>
  /\ hFetches[2].headers.authorization = Some(<<"L402 ", "mac2", ":", "pre1">>)
  /\ hResult[1].status = 429

\* The handler was called and threw: the call is over with no replay sent.
HandlerThrew == CallDone /\ hPaid # <<>> /\ ReplayFetches = <<>>

\* C10: when the auto-pay handler throws, the call does not throw and is not
\* retried: it yields the original 402 with its status, headers and parsed body.
C10_HandlerFailureYieldsOriginal402 ==
  HandlerThrew =>
    /\ hResult = Some([kind |-> "response", status |-> 402,
                       headers |-> hResponse[1].headers,
                       data |-> parseResponseData(hResponse[1]), code |-> ""])
    /\ hResponse[1].status = 402
    /\ Len(hFetches) = hAttempt + 1
    /\ Len(hSleeps) = hAttempt
    /\ Len(hPaid) = 1

\* C10: the handler threw on the first attempt of a client with retries left.
C10_Witness ==
  /\ HandlerThrew
  /\ hAttempt = 0
  /\ hOptions.maxRetries >= 1
  /\ hResult[1].status = 402
  /\ hResult[1].data.fields.invoice = Some(<<"lnbc1">>)

\* The response in hand is a 402 and it is the one the retry loop received
\* (no replay was sent).
Got402 ==
  /\ IsDefined(hResponse)
  /\ hResponse[1].status = 402
  /\ ReplayFetches = <<>>
  /\ hHistory # <<>>
  /\ hHistory[Len(hHistory)] = [outcome |-> "response", status |-> 402, body |-> "read"]
Raw402 ==
  Some([kind |-> "response", status |-> 402, headers |-> hResponse[1].headers,
        data |-> parseResponseData(hResponse[1]), code |-> ""])

\* C11: the handler is asked to pay only when a handler is configured, the
\* response's status is 402 and a challenge was parsed from it; without a
\* handler no payment happens and the 402 is returned; with a handler and a 402
\* that has no WWW-Authenticate challenge, the handler is not called and the
\* 402 is returned as received.
C11_PaymentOnlyOnChallenge ==
  /\ hPaid # <<>> =>
       /\ hOptions.l402Handler
       /\ hHistory # <<>>
       /\ hHistory[Len(hHistory)] = [outcome |-> "response", status |-> 402, body |-> "read"]
       /\ IsDefined(hOriginal)
       /\ hOriginal[1].headers.wwwAuthenticate # Undefined
       /\ hOriginal[1].challenge = Some(hPaid[1])
       /\ hPaid[1].macaroon # <<>>
       /\ hPaid[1].invoice # <<>>
  /\ ~hOptions.l402Handler =>
       /\ hPaid = <<>>
       /\ hPc \notin {"readingChallenge", "paying", "replaying", "readingReplay"}
       /\ (Got402 /\ CallDone) => hResult = Raw402
  /\ (hOptions.l402Handler /\ Got402 /\ hResponse[1].headers.wwwAuthenticate = Undefined) =>
       /\ hPaid = <<>>
       /\ CallDone
       /\ hResult = Raw402

\* C11: a client with a handler received a 402 without a WWW-Authenticate
\* header and returned it without calling the handler.
C11_Witness ==
  /\ hOptions.l402Handler
  /\ Got402
  /\ hResponse[1].headers.wwwAuthenticate = Undefined
  /\ CallDone
  /\ hPaid = <<>>
  /\ hResult[1].status = 402
  /\ hResult[1].data.fields.invoice = Some(<<"lnbc3">>)

NetworkFailure(k) == hHistory[k].outcome \in {"AbortError", "TypeError"}

\* C12: an attempt that fails at network level (a timeout's abort included) and
\* is not the last is followed by a backoff and another attempt; when the last
\* of the maxRetries+1 attempts fails so, the call throws upstream_timeout (504)
\* for an abort and network_error (503) otherwise.
C12_NetworkFailureRetriedThenThrown ==
  \A k \in 1..Len(hHistory) :
    NetworkFailure(k) =>
      IF k < hOptions.maxRetries + 1
      THEN Retried(k) /\ (k = Len(hHistory) => hPc \in {"sleeping", "fetching"} /\ hResult = Undefined)
      ELSE /\ k = Len(hHistory)
           /\ ~Retried(k)
           /\ CallDone
           /\ hResult = Some([kind |-> "error",
                              status |-> IF hHistory[k].outcome = "AbortError" THEN 504 ELSE 503,
                              headers |-> NoHeaders, data |-> NoData,
                              code |-> IF hHistory[k].outcome = "AbortError"
                                       THEN "upstream_timeout" ELSE "network_error"])

\* C12: the first attempt failed on the network and was retried; the second,
\* the last, timed out and the call threw upstream_timeout.
C12_Witness ==
  /\ hOptions.maxRetries = 1
  /\ Len(hHistory) = 2
  /\ hHistory[1].outcome = "TypeError"
  /\ hHistory[2].outcome = "AbortError"
  /\ hSleeps = <<0>>
  /\ CallDone
  /\ hResult[1].code = "upstream_timeout"
  /\ hResult[1].status = 504

\* ------------------------------------------------ token cache: properties

\* The operation that completed last was a set on a cache at capacity.
SetOnFullCache == cLast.op = "set" /\ Len(cLast.pre) >= cOptions.maxEntries
Expired(entry) == cNow > entry.expiresAt
\* The entries the set started from, without the expired ones.
Unexpired == SelectSeq(cLast.pre, LAMBDA e : ~Expired(e))
\* ... and, if that is still a full cache, without the first-inserted one.
KeptBySet ==
  IF Len(Unexpired) >= cOptions.maxEntries
  THEN SubSeq(Unexpired, 2, Len(Unexpired))
  ELSE Unexpired
\* The entry the set was called to store.
StoredBySet ==
  [macaroon |-> cLast.challenge.macaroon, invoice |-> cLast.challenge.invoice,
   paymentHash |-> cLast.challenge.paymentHash, amountSats |-> cLast.challenge.amountSats,
   expiresAt |-> cNow + (IF cLast.ttlMs = <<>> THEN cOptions.defaultTtlMs ELSE cLast.ttlMs[1])]
KeysOf(entries) == {entries[i].paymentHash : i \in 1..Len(entries)}
\* Inserting into a Map: a key it holds keeps its place, a new key goes last.
Inserted(entries, entry) ==
  IF entry.paymentHash \in KeysOf(entries)
  THEN [i \in 1..Len(entries) |->
          IF entries[i].paymentHash = entry.paymentHash THEN entry ELSE entries[i]]
  ELSE entries \o <<entry>>

\* C13: set on a cache holding maxEntries entries first removes every expired
\* entry; only if the cache is still full it evicts exactly one entry, the
\* first-inserted one whatever its remaining TTL; then it inserts the new entry.
\* A new key set on a full cache of unexpired entries removes exactly the
\* first-inserted key and keeps the others.
C13_SetPurgesThenEvictsOldest ==
  /\ Len(cEntries) <= cOptions.maxEntries
  /\ SetOnFullCache =>
       /\ cEntries = Inserted(KeptBySet, StoredBySet)
       /\ \A i \in 1..Len(cLast.pre) :
            (Expired(cLast.pre[i]) /\ cLast.pre[i].paymentHash # cLast.challenge.paymentHash)
              => cLast.pre[i].paymentHash \notin KeysOf(cEntries)
       /\ Len(Unexpired) < cOptions.maxEntries =>
            KeysOf(cEntries) = KeysOf(Unexpired) \cup {cLast.challenge.paymentHash}
       /\ (Len(Unexpired) = Len(cLast.pre)
             /\ cLast.challenge.paymentHash \notin KeysOf(cLast.pre)) =>
            cEntries = SubSeq(cLast.pre, 2, Len(cLast.pre)) \o <<StoredBySet>>

\* C13: a cache of capacity 2 held two unexpired entries, the first-inserted
\* one with the later expiry; setting a third key removed the first-inserted.
C13_Witness ==
  /\ SetOnFullCache
  /\ cOptions.maxEntries = 2
  /\ Len(cLast.pre) = 2
  /\ Len(Unexpired) = 2
  /\ cLast.pre[1].expiresAt > cLast.pre[2].expiresAt
  /\ cLast.challenge.paymentHash \notin KeysOf(cLast.pre)
  /\ cEntries = <<cLast.pre[2], StoredBySet>>

GetCompleted == cLast.op = "get"
\* The entry the Map held for the key get was called with.
HeldForGet == SelectSeq(cLast.pre, LAMBDA e : e.paymentHash = cLast.challenge.paymentHash)
GetHonoursExpiry ==
  GetCompleted =>
    IF HeldForGet = <<>>
    THEN cLast.ret = <<>> /\ cEntries = cLast.pre
    ELSE IF cNow > HeldForGet[1].expiresAt
    THEN /\ cLast.ret = <<>>
         /\ cEntries = SelectSeq(cLast.pre, LAMBDA e : e.paymentHash # cLast.challenge.paymentHash)
    ELSE /\ cLast.ret = <<HeldForGet[1]>>
         /\ cEntries = cLast.pre
SetStoresItsEntry ==
  cLast.op = "set" =>
    /\ Len(SelectSeq(cEntries, LAMBDA e : e.paymentHash = cLast.challenge.paymentHash)) = 1
    /\ StoredBySet \in Range(cEntries)
\* Every entry the Map holds after a step was held before it, or is the one a
\* set has just stored.
EntriesWrittenOnlyBySet ==
  \A i \in 1..Len(cEntries') :
    \/ cEntries'[i] \in Range(cEntries)
    \/ /\ cLast'.op = "set"
       /\ cEntries'[i].paymentHash = cLast'.challenge.paymentHash
       /\ cEntries'[i].macaroon = cLast'.challenge.macaroon
       /\ cEntries'[i].invoice = cLast'.challenge.invoice

\* C14: get never returns an entry whose TTL has elapsed: once the clock is
\* past expiresAt it returns undefined and removes the entry, whether or not a
\* purge has run; before that it returns the entry the latest set stored for
\* the payment hash and leaves the cache unchanged.
C14_GetNeverReturnsExpired ==
  /\ [](GetHonoursExpiry /\ SetStoresItsEntry)
  /\ [][EntriesWrittenOnlyBySet]_vars

\* C14: get found an expired entry that no purge had removed (no cleanup timer
\* was started), returned undefined and removed it.
C14_Witness ==
  /\ GetCompleted
  /\ HeldForGet # <<>>
  /\ cNow > HeldForGet[1].expiresAt
  /\ ~cCleanupTimer
  /\ cLast.ret = <<>>
  /\ Len(cEntries) = Len(cLast.pre) - 1

\* ---------------------------------------------- catalog manager: properties

\* The fetches that are running: started, and fetchCatalog has not settled.
FetchesInFlight == {f \in 1..Len(gFetches) : gFetches[f].status = "pending"}
\* The fetches whose finally callback has not run yet.
FetchesMarked == {f \in 1..Len(gFetches) : gFetches[f].status \in {"pending", "settled"}}
\* The calls that started a fetch.
StartingCalls == {k \in 1..Len(gCalls) : gCalls[k].path = "fetch"}

\* C15: at most one catalog fetch is in flight at any moment; a getState call
\* that needs a refresh while a fetch is in flight starts none and receives that
\* fetch's result; once the fetch has settled, fulfilled or rejected, the
\* in-flight marker is cleared and the next call that needs a refresh starts a
\* new fetch.
C15_RefreshesAreDeduplicated ==
  /\ Cardinality(FetchesInFlight) <= 1
  /\ Cardinality(FetchesMarked) <= 1
  /\ Len(gFetches) = Cardinality(StartingCalls)
  /\ gInflight = (IF FetchesMarked = {} THEN <<>>
                  ELSE <<CHOOSE f \in FetchesMarked : TRUE>>)
  /\ \A k \in 1..Len(gCalls) :
       LET call == gCalls[k]
       IN /\ (call.needed /\ call.saw # <<>>) =>
               /\ call.path = "join"
               /\ call.fetch = call.saw[1]
               /\ \E j \in 1..(k - 1) : gCalls[j].path = "fetch" /\ gCalls[j].fetch = call.fetch
          /\ (call.needed /\ call.saw = <<>>) =>
               /\ call.path = "fetch"
               /\ call.fetch = Cardinality({j \in 1..k : gCalls[j].path = "fetch"})
          /\ call.needed =>
               IF gFetches[call.fetch].status = "delivered"
               THEN call.result = gFetches[call.fetch].outcome /\ call.result # <<>>
               ELSE call.result = <<>>
          /\ ~call.needed => call.path = "cached" /\ call.result # <<>> /\ call.result[1].ok
  /\ \A j, k \in 1..Len(gCalls) :
       (gCalls[j].needed /\ gCalls[k].needed /\ gCalls[j].fetch = gCalls[k].fetch) =>
         gCalls[j].result = gCalls[k].result

\* C15: a second call joined the first call's fetch; the fetch failed and both
\* received the rejection; the third call then started a second fetch.
C15_Witness ==
  /\ Len(gCalls) = 3
  /\ gCalls[1].path = "fetch" /\ gCalls[1].fetch = 1
  /\ gCalls[2].needed /\ gCalls[2].saw = <<1>> /\ gCalls[2].fetch = 1
  /\ gCalls[1].result = <<[ok |-> FALSE, state |-> <<>>]>>
  /\ gCalls[2].result = gCalls[1].result
  /\ gCalls[3].path = "fetch" /\ gCalls[3].fetch = 2
  /\ gInflight = <<2>>

\* ---------------------------------------------- tool executor: properties

ExecuteDone == xPc = "done"
ExecuteResolved == ExecuteDone /\ xOutcome[1].settled = "resolved"
ExecuteRejected == ExecuteDone /\ xOutcome[1].settled = "rejected"
ExecResult == xOutcome[1].result[1]
HandlerThrewBeforePosting == ExecuteDone /\ xPlan[1].kind = "throws"
UpstreamResponded == ExecuteDone /\ xUpstream # Undefined /\ xUpstream[1].kind = "response"
UpstreamThrew == ExecuteDone /\ xUpstream # Undefined /\ xUpstream[1].kind = "error"

\* The call lacks an argument its handler requires as a non-empty string.
RequiredStrings(kind) ==
  CASE kind \in {"image_generate", "image_edit", "video_generate"} -> <<"model", "prompt">>
    [] kind = "text_generate" -> <<"model">>
    [] kind = "audio_speech" -> <<"model", "voice", "input">>
    [] kind = "raw_call" -> <<"endpoint">>
    [] OTHER -> <<>>
NeedsInputKey(kind) == kind \in {"text_generate", "safety_moderate", "embedding_create"}
MissingRequiredArgument ==
  /\ xCall # Undefined
  /\ LET tool == xCall[1].tool
         args == xCall[1].args
     IN \/ \E k \in 1..Len(RequiredStrings(tool.kind)) :
             args[RequiredStrings(tool.kind)[k]] \in {Undefined, Some(EmptyString)}
        \/ NeedsInputKey(tool.kind) /\ args.input = Undefined

\* C16 (as stated): every finished execute resolved to a result envelope, never
\* rejected: a missing required argument gave {ok:false, status:400,
\* error.code:'invalid_input'}, and an upstream response gave an envelope with
\* the response's status, ok exactly for 2xx.
C16_ExecuteAlwaysResolves ==
  ExecuteDone =>
    /\ ExecuteResolved
    /\ MissingRequiredArgument =>
         /\ ~ExecResult.ok
         /\ ExecResult.status = 400
         /\ ExecResult.error.code = Str("invalid_input")
    /\ UpstreamResponded =>
         /\ ExecResult.status = xUpstream[1].response.status
         /\ ExecResult.ok = (xUpstream[1].response.status \in 200..299)

\* What does hold of execute: whatever the upstream call gives, a response or
\* a thrown error, comes back as an envelope with that status; a rejection
\* happens only where the handler threw before or outside its upstream call.
ExecuteConvertsUpstreamOutcomes ==
  /\ UpstreamResponded =>
       /\ ExecuteResolved
       /\ ExecResult.status = xUpstream[1].response.status
       /\ ExecResult.ok = (xUpstream[1].response.status \in 200..299)
  /\ (UpstreamThrew /\ xPlan[1].kind = "posts") =>
       /\ ExecuteResolved
       /\ ~ExecResult.ok
       /\ ExecResult.status = xUpstream[1].error.status
  /\ ExecuteRejected => (HandlerThrewBeforePosting \/ xPlan[1].kind = "catalog")

\* A call without its model was made and execute rejected with invalid_input.
ExecuteRejectedInvalidInput ==
  /\ ExecuteRejected
  /\ MissingRequiredArgument
  /\ xOutcome[1].error[1].code = Str("invalid_input")

\* The call is in quote mode: no bearer token configured, allow_l402_quote set.
QuoteMode ==
  /\ xCall # Undefined
  /\ ~Truthy(xOptions.bearerToken)
  /\ xCall[1].args.allow_l402_quote
Quoted402 == ExecuteDone /\ QuoteMode /\ UpstreamResponded /\ xUpstream[1].response.status = 402
QuoteBody == xUpstream[1].response.data
QuoteHeaders == xUpstream[1].response.headers
PaymentFields == {"amount_sats", "invoice", "payment_hash", "expires_in"}

\* The envelope carries, unchanged, each payment field the body has.
CarriesPaymentFields ==
  QuoteBody.kind = "object" =>
    \A f \in PaymentFields :
      IsDefined(QuoteBody.fields[f]) => ExecResult.error.metadata[f] = QuoteBody.fields[f]

\* C18 (as stated): every 402 in quote mode gives status 402, code
\* payment_required, the body's payment fields, and topup_url whenever the
\* X-Topup-URL header is present.
C18_Every402IsAQuote ==
  Quoted402 =>
    /\ ExecuteResolved
    /\ ~ExecResult.ok
    /\ ExecResult.status = 402
    /\ ExecResult.error.code = Str("payment_required")
    /\ CarriesPaymentFields
    /\ IsDefined(QuoteHeaders.xTopupUrl) => ExecResult.error.metadata.topup_url = QuoteHeaders.xTopupUrl

\* C18: a 402 in quote mode whose body is an object with status
\* payment_required gives a failure envelope with status 402 and code
\* payment_required that carries unchanged each of amount_sats, invoice,
\* payment_hash and expires_in present in the body, and topup_url equal to the
\* X-Topup-URL header when that header is present and not empty.
C18_QuoteEnvelope ==
  (Quoted402 /\ QuoteBody.kind = "object"
             /\ QuoteBody.fields.status = Some(Str("payment_required"))) =>
    /\ ExecuteResolved
    /\ ~ExecResult.ok
    /\ ExecResult.status = 402
    /\ ExecResult.error.code = Str("payment_required")
    /\ \A f \in PaymentFields :
         IsDefined(QuoteBody.fields[f]) => ExecResult.error.metadata[f] = QuoteBody.fields[f]
    /\ (IsDefined(QuoteHeaders.xTopupUrl) /\ QuoteHeaders.xTopupUrl[1] # EmptyString)
         => ExecResult.error.metadata.topup_url = QuoteHeaders.xTopupUrl

\* A quote with invoice lnbc_test, amount 30 and a top-up URL came back from a
\* call made without bearer token and with allow_l402_quote.
C18_Witness ==
  /\ Quoted402
  /\ QuoteBody.kind = "object"
  /\ QuoteBody.fields.status = Some(Str("payment_required"))
  /\ QuoteBody.fields.invoice = Some(Str("lnbc_test"))
  /\ QuoteBody.fields.amount_sats = Some(30)
  /\ QuoteHeaders.xTopupUrl = Some(Str("/topup"))
  /\ ExecResult.error.metadata.invoice = Some(Str("lnbc_test"))
  /\ ExecResult.error.metadata.topup_url = Some(Str("/topup"))

\* --------------------------------------------- result envelopes: properties

Converted == rResult # Undefined
FailureEnvelope == Converted /\ ~rResult[1].ok

\* The code the upstream body declares, if any.
DeclaredCode(data) ==
  IF data.kind # "object" THEN Undefined
  ELSE LET nested == IF IsDefined(data.fields.error) THEN asString(data.fields.error[1].code)
                     ELSE Undefined
       IN Coalesce(nested, Coalesce(asString(data.fields.code), asString(data.fields.status)))

BodyStatusIs(data, status) == data.kind = "object" /\ data.fields.status = Some(Str(status))

\* The fixed table of error codes by upstream status and body.
TableCode(status, data) ==
  IF status = 401 THEN Str("invalid_token")
  ELSE IF status = 402 /\ BodyStatusIs(data, "payment_required") THEN Str("payment_required")
  ELSE IF status = 402 /\ BodyStatusIs(data, "insufficient_balance") THEN Str("insufficient_balance")
  ELSE IF status = 404 THEN Str("endpoint_not_found")
  ELSE IF status = 413 THEN Str("request_too_large")
  ELSE IF status = 429 THEN Str("rate_limited")
  ELSE IF status >= 500 THEN Str("upstream_unavailable")
  ELSE IF IsDefined(DeclaredCode(data)) THEN DeclaredCode(data)[1]
  ELSE Str("upstream_error")

\* C17 (as stated): the error code of every failure envelope is the one the
\* fixed table gives for the upstream status and body.
C17_CodeFollowsTable ==
  FailureEnvelope => rResult[1].error.code = TableCode(rResponse.status, rResponse.data)

\* What does hold: the status alone decides the code of every body that is
\* not an object (a 402 then gives payment_required).
CodeFollowsStatusWithoutObjectBody ==
  (FailureEnvelope /\ rResponse.data.kind # "object")
    => rResult[1].error.code =
         IF rResponse.status = 402 THEN Str("payment_required")
         ELSE TableCode(rResponse.status, rResponse.data)

\* A 404 with a JSON object body that declares no code was converted.
NotFoundWithObjectBody ==
  /\ FailureEnvelope
  /\ rResponse.status = 404
  /\ rResponse.data = ObjectData(NoFields)
  /\ rResult[1].error.code = Str("upstream_error")

\* ----------------------------------------------- L402 challenge: properties

Parsed == lResult # Undefined
ParsedChallenge == lResult[1].challenge
HeaderAbsent == lHeaders.wwwAuthenticate = Undefined
HeaderParams == lHeaders.wwwAuthenticate[1].params
NotL402Scheme == lHeaders.wwwAuthenticate[1].scheme \notin {"L402", "l402"}

\* A parameter or body field gives a value when it is there and not empty.
Given(value) == value # Undefined /\ value[1] # EmptyString
BodyIsObject == lBody.kind = "object"

NoMacaroonGiven == ~Given(HeaderParams.macaroon) /\ ~Given(HeaderParams.token)
NoInvoiceGiven == ~Given(HeaderParams.invoice) /\ ~(BodyIsObject /\ Given(lBody.fields.invoice))
GivenMacaroon ==
  IF Given(HeaderParams.macaroon) THEN HeaderParams.macaroon[1] ELSE HeaderParams.token[1]
GivenInvoice ==
  IF Given(HeaderParams.invoice) THEN HeaderParams.invoice[1] ELSE lBody.fields.invoice[1]
WithoutOneTrailingColon(text) ==
  IF Len(text) > 0 /\ text[Len(text)] = ":" THEN SubSeq(text, 1, Len(text) - 1) ELSE text

NoChallengeExpected == HeaderAbsent \/ NotL402Scheme \/ NoMacaroonGiven \/ NoInvoiceGiven
ChallengeAsExpected ==
  /\ ParsedChallenge # Undefined
  /\ ParsedChallenge[1].macaroon = WithoutOneTrailingColon(GivenMacaroon)
  /\ ParsedChallenge[1].invoice = GivenInvoice
  /\ ParsedChallenge[1].paymentHash =
       IF BodyIsObject /\ Given(lBody.fields.payment_hash) THEN lBody.fields.payment_hash[1]
       ELSE EmptyString
  /\ ParsedChallenge[1].amountSats =
       IF BodyIsObject /\ lBody.fields.amount_sats # Undefined THEN lBody.fields.amount_sats[1]
       ELSE 0

\* C19 (as stated): parseL402Challenge returns undefined exactly when the
\* header is absent, is not of the L402 scheme, gives neither a macaroon nor a
\* token, or no invoice is given by header or body; otherwise it returns the
\* macaroon given (one trailing ":" removed), the header's invoice before the
\* body's, and payment hash and amount from the body or their defaults.
C19_UndefinedExactlyWhenUnresolved ==
  Parsed => IF NoChallengeExpected THEN ParsedChallenge = Undefined ELSE ChallengeAsExpected

\* A parameter written with an empty quoted value: macaroon="", token="", invoice="".
EmptyQuoted(name) == ~HeaderAbsent /\ HeaderParams[name] = Some(EmptyString)

\* What does hold: the statement, for every header that has no parameter
\* written with an empty quoted value.
ParsesHeadersWithoutEmptyQuotedValues ==
  (Parsed /\ ~EmptyQuoted("macaroon") /\ ~EmptyQuoted("token") /\ ~EmptyQuoted("invoice"))
    => IF NoChallengeExpected THEN ParsedChallenge = Undefined ELSE ChallengeAsExpected

\* `L402 macaroon="", invoice="lnbc_header"` was parsed into a challenge whose
\* macaroon is the two quote characters.
QuoteCharactersAsMacaroon ==
  /\ Parsed
  /\ ~HeaderAbsent /\ ~NotL402Scheme
  /\ EmptyQuoted("macaroon")
  /\ ParsedChallenge # Undefined
  /\ ParsedChallenge[1].macaroon = <<"\"\"">>

\* ------------------------------------------- catalog validation: properties

ParseDone == kParsed # Undefined
StateBuilt == kState # Undefined

\* The document has a per_model endpoint whose model-price map is missing or
\* empty, or a flat endpoint without a numeric price_sats.
PerModelWithoutPrices(endpoint) ==
  endpoint.price_type = "per_model" /\ endpoint.models \in {Undefined, Some(<<>>)}
FlatWithoutPrice(endpoint) ==
  endpoint.price_type = "flat"
    /\ (endpoint.price_sats = Undefined \/ endpoint.price_sats[1].type # "number")
HasUnpricedEndpoint ==
  \E k \in 1..Len(kInput) : PerModelWithoutPrices(kInput[k]) \/ FlatWithoutPrice(kInput[k])

\* C20: parseCatalog fails, and no CatalogState is built, for every catalog
\* with a per_model endpoint whose model-price map is missing or empty or a
\* flat endpoint without a numeric price_sats; in every CatalogState built by
\* parse then normalize each per_model endpoint has at least one priced model
\* and each flat endpoint has a flat price.
C20_UnpricedEndpointsFailValidation ==
  /\ (ParseDone /\ HasUnpricedEndpoint) => (~kParsed[1].ok /\ ~StateBuilt)
  /\ StateBuilt =>
       \A k \in 1..Len(kState[1].endpoints) :
         LET endpoint == kState[1].endpoints[k]
         IN /\ endpoint.priceType = "per_model" =>
                 /\ Len(endpoint.modelPrices) >= 1
                 /\ \A j \in 1..Len(endpoint.modelPrices) :
                      endpoint.modelPrices[j].price_sats.type = "number"
            /\ endpoint.priceType = "flat" =>
                 /\ endpoint.flatPriceSats # Undefined
                 /\ endpoint.flatPriceSats[1].type = "number"

\* A document whose first endpoint is priced and whose second is flat without
\* price_sats was rejected with the flat error.
C20_Witness ==
  /\ ParseDone
  /\ Len(kInput) = 2
  /\ ~PerModelWithoutPrices(kInput[1]) /\ ~FlatWithoutPrice(kInput[1])
  /\ kInput[2].price_type = "flat" /\ kInput[2].price_sats = Undefined
  /\ ~kParsed[1].ok
  /\ kParsed[1].error = "is flat but has no price_sats"

\* ------------------------------------------- tool synthesis: properties

Built == IsDefined(sToolState)
BuiltCompact == Built /\ sConfig.toolProfile = "compact"
BuiltFull == Built /\ sConfig.toolProfile = "full"
ToolsOfKind(ts, kind) == {k \in 1..Len(ts.tools) : ts.tools[k].kind = kind}
ToolsRoutedTo(ts, path) == {k \in 1..Len(ts.tools) : ts.tools[k].endpointPath = Some(path)}
HasPost(catalog, path) ==
  \E i \in 1..Len(catalog) : catalog[i].path = path /\ catalog[i].method = "POST"

\* C21: in the compact profile the ToolState has at most one text_generate
\* tool; when POST /v1/responses and POST /v1/chat/completions both exist, that
\* tool is routed to /v1/responses and no tool is routed to the chat endpoint;
\* when both image endpoints exist, image_generate and image_edit are two
\* tools, each routed to its own endpoint, whatever their model sets.
C21_CompactTextAndImageTools ==
  BuiltCompact =>
    LET ts == sToolState[1]
        text == ToolsOfKind(ts, "text_generate")
        generate == ToolsOfKind(ts, "image_generate")
        edit == ToolsOfKind(ts, "image_edit")
    IN /\ Cardinality(text) <= 1
       /\ (HasPost(sCatalog, PathResponses) /\ HasPost(sCatalog, PathChat)) =>
            /\ Cardinality(text) = 1
            /\ text = ToolsRoutedTo(ts, PathResponses)
            /\ ToolsRoutedTo(ts, PathChat) = {}
       /\ (HasPost(sCatalog, PathImagesGen) /\ HasPost(sCatalog, PathImagesEdit)) =>
            /\ Cardinality(generate) = 1 /\ generate = ToolsRoutedTo(ts, PathImagesGen)
            /\ Cardinality(edit) = 1 /\ edit = ToolsRoutedTo(ts, PathImagesEdit)
            /\ generate # edit

\* A compact ToolState was built from a catalog that has both text endpoints
\* and the image-edit endpoint: one text tool, routed to /v1/responses.
C21_Witness ==
  /\ BuiltCompact
  /\ HasPost(sCatalog, PathResponses) /\ HasPost(sCatalog, PathChat)
  /\ HasPost(sCatalog, PathImagesEdit)
  /\ Cardinality(ToolsOfKind(sToolState[1], "text_generate")) = 1
  /\ Cardinality(ToolsOfKind(sToolState[1], "image_edit")) = 1

\* A compact ToolState built from a document that lists two chat-completions
\* endpoints, the one with the single model first, and no /v1/responses: the
\* text tool is routed to the chat path.
TwoChatEndpointsInDocumentOrder ==
  /\ BuiltCompact
  /\ Len(sCatalog) = 2
  /\ sCatalog[1].path = PathChat /\ sCatalog[2].path = PathChat
  /\ sCatalog[1].models = {"m21"}
  /\ Cardinality(ToolsOfKind(sToolState[1], "text_generate")) = 1
  /\ ToolsOfKind(sToolState[1], "text_generate") = ToolsRoutedTo(sToolState[1], PathChat)

PostEndpoints(catalog) == {catalog[i] : i \in {k \in 1..Len(catalog) : catalog[k].method = "POST"}}
Exposed(ts, endpoint) == ToolsRoutedTo(ts, endpoint.path) # {}

\* The Jaccard similarity of two model sets is at least 19/20.
SimilarModels(a, b) ==
  \/ a.models = {} /\ b.models = {}
  \/ /\ a.models \cup b.models # {}
     /\ 20 * Cardinality(a.models \cap b.models) >= 19 * Cardinality(a.models \cup b.models)

TextGeneration(endpoint) == endpoint.family = "text-generation"

\* The two endpoints compete for the compact text tool and only one of them
\* has a tool.
Collapsed(ts, a, b) ==
  /\ {a.path, b.path} = {PathResponses, PathChat}
  /\ Some(a) = endpointByPath(sCatalog, a.path) /\ Some(b) = endpointByPath(sCatalog, b.path)
  /\ Exposed(ts, a) # Exposed(ts, b)

\* C22: isDuplicateCandidate gives the same result for (a,b) and (b,a); it is
\* true exactly when the endpoints have the same method, the same content
\* type, the same family (two text-generation endpoints count as one family)
\* and a model-set Jaccard similarity of at least 0.95; and a pair whose
\* similarity is below 0.95 is never collapsed into one tool.
C22_OnlyDuplicateCandidatesCollapse ==
  BuiltCompact =>
    \A a \in PostEndpoints(sCatalog), b \in PostEndpoints(sCatalog) :
      /\ isDuplicateCandidate(a, b) = isDuplicateCandidate(b, a)
      /\ isDuplicateCandidate(a, b) <=>
            /\ a.method = b.method
            /\ a.contentType = b.contentType
            /\ (a.family = b.family \/ (TextGeneration(a) /\ TextGeneration(b)))
            /\ SimilarModels(a, b)
      /\ ~SimilarModels(a, b) => ~Collapsed(sToolState[1], a, b)

\* The duplicate test itself: symmetric and exact at the threshold.
DuplicateTestSymmetricAndExact ==
  \A i \in 1..Len(sCatalog), j \in 1..Len(sCatalog) :
    LET a == sCatalog[i]
        b == sCatalog[j]
    IN /\ isDuplicateCandidate(a, b) = isDuplicateCandidate(b, a)
       /\ isDuplicateCandidate(a, b) <=>
             /\ a.method = b.method
             /\ a.contentType = b.contentType
             /\ (a.family = b.family \/ (TextGeneration(a) /\ TextGeneration(b)))
             /\ SimilarModels(a, b)

\* A compact ToolState built from chat and responses endpoints with disjoint
\* model sets has a tool for /v1/responses and none for the chat endpoint.
DissimilarTextEndpointsCollapsed ==
  /\ BuiltCompact
  /\ \E a \in PostEndpoints(sCatalog), b \in PostEndpoints(sCatalog) :
       /\ a.models \cap b.models = {} /\ a.models # {}
       /\ ~isDuplicateCandidate(a, b)
       /\ Collapsed(sToolState[1], a, b)

NamesUnique(ts) == Cardinality(ToolNames(ts)) = Len(ts.tools)

\* C23: in both profiles no two tools of the ToolState buildToolState returns
\* have the same name, also when full-profile names collide after
\* sanitization with each other, with albom_catalog_get or with albom_raw_call.
C23_ToolNamesUnique ==
  Built => NamesUnique(sToolState[1])

\* Names are unique in the compact profile, and in the full profile when at
\* most two endpoints share a sanitized name and none is named albom_raw_call.
NamesUniqueWithoutRepeatedCollision ==
  Built =>
    LET posts == {i \in 1..Len(sCatalog) : /\ sCatalog[i].method = "POST"
                                           /\ shouldIncludeFullEndpoint(sCatalog[i], sConfig)}
        base(i) == fullToolName(sCatalog[i].apiKey, sCatalog[i].path)
    IN (\/ sConfig.toolProfile = "compact"
        \/ /\ \A i \in posts : Cardinality({j \in posts : base(j) = base(i)}) <= 2
           /\ \A i \in posts : base(i) # RawCallTool.name
           /\ \A i \in posts : base(i) = CatalogGetTool.name =>
                                   Cardinality({j \in posts : base(j) = base(i)}) = 1)
       => NamesUnique(sToolState[1])

\* A full ToolState with the raw tool built from a catalog whose api "raw" has
\* the endpoint /v1/call: two tools are named albom_raw_call.
RawCallNameTakenTwice ==
  /\ BuiltFull /\ sConfig.allowRawTool
  /\ Cardinality({k \in 1..Len(sToolState[1].tools) :
                    sToolState[1].tools[k].name = RawCallTool.name}) = 2

\* A full ToolState built from three endpoints whose paths sanitize to the
\* same name: the second and the third both get the name with the method suffix.
SuffixedNameTakenTwice ==
  /\ BuiltFull
  /\ \E j \in 1..Len(sToolState[1].tools), k \in 1..Len(sToolState[1].tools) :
       /\ j < k
       /\ sToolState[1].tools[j].name = <<"albom", "openai", "images", "edits", "post">>
       /\ sToolState[1].tools[k].name = sToolState[1].tools[j].name

Rebuilt == Built /\ IsDefined(sPrevious)

\* The identity fields of a tool: kind, name, routed endpoint path,
\* translation endpoint path, and the content type of a full-endpoint tool.
IdentityFields(tool) ==
  [kind |-> tool.kind, name |-> tool.name, endpointPath |-> tool.endpointPath,
   translationEndpointPath |-> tool.translationEndpointPath,
   contentType |-> IF tool.kind = "full_endpoint" THEN tool.contentType ELSE ""]
IdentityList(ts) == [k \in 1..Len(ts.tools) |-> IdentityFields(ts.tools[k])]

\* The ToolState was built again from the same configuration and a catalog
\* that differs from the previous one only in fields of its endpoints that are
\* no identity field of a tool: file field, prices, description, api name
\* (which the title of a full-endpoint tool is written from).
ChangeConfinedToOtherFields ==
  /\ sConfig = sPrevious[1].config
  /\ Len(sCatalog) = Len(sPrevious[1].catalog)
  /\ \A i \in 1..Len(sCatalog) :
       [sCatalog[i] EXCEPT !.fileField = sPrevious[1].catalog[i].fileField,
                           !.flatPriceSats = sPrevious[1].catalog[i].flatPriceSats,
                           !.modelPrices = sPrevious[1].catalog[i].modelPrices,
                           !.description = sPrevious[1].catalog[i].description,
                           !.apiName = sPrevious[1].catalog[i].apiName]
         = sPrevious[1].catalog[i]

\* C24: buildToolState called again with the same catalog and configuration
\* returns the same ToolState; the ToolStates of two calls (which may differ in
\* the profile, in one endpoint's fields, or in the endpoints listed) have equal
\* signatures if and only if they have the same profile and the same ordered
\* list of identity fields per tool (kind, name, routed endpoint path,
\* translation endpoint path, content type of a full-endpoint tool); a catalog
\* change confined to file field, prices, description or api name leaves the
\* signature equal although the tools' file field, description or title differ.
C24_SignatureCoversIdentityOnly ==
  Rebuilt =>
    LET before == sPrevious[1].toolState
        after == sToolState[1]
    IN /\ (sCatalog = sPrevious[1].catalog /\ sConfig = sPrevious[1].config) => after = before
       /\ (before.signature = after.signature) <=>
            (before.profile = after.profile /\ IdentityList(before) = IdentityList(after))
       /\ ChangeConfinedToOtherFields => before.signature = after.signature

\* A full ToolState rebuilt after the file field of an endpoint changed: the
\* tool's file field differs and the signature is the same.
C24_Witness ==
  /\ Rebuilt /\ sConfig.toolProfile = "full"
  /\ ChangeConfinedToOtherFields
  /\ \E k \in 1..Len(sToolState[1].tools) :
       /\ sToolState[1].tools[k].kind = "full_endpoint"
       /\ sToolState[1].tools[k].fileField # sPrevious[1].toolState.tools[k].fileField
  /\ sToolState[1].signature = sPrevious[1].toolState.signature

\* The rebuilt ToolState differs from the previous one in the title or the
\* description of a tool and has the same signature.
TitleChangeKeepsSignature ==
  /\ Rebuilt
  /\ \E k \in 1..Len(sToolState[1].tools) :
       /\ k <= Len(sPrevious[1].toolState.tools)
       /\ \/ sToolState[1].tools[k].title # sPrevious[1].toolState.tools[k].title
          \/ sToolState[1].tools[k].description # sPrevious[1].toolState.tools[k].description
  /\ sToolState[1].signature = sPrevious[1].toolState.signature

\* Two ToolStates with the same tools, in the same order, and different
\* profiles have different signatures.
ProfileAloneChangesSignature ==
  /\ Rebuilt
  /\ sToolState[1].profile # sPrevious[1].toolState.profile
  /\ IdentityList(sToolState[1]) = IdentityList(sPrevious[1].toolState)
  /\ sToolState[1].signature # sPrevious[1].toolState.signature

\* The rebuilt ToolState has the same profile and the same number of tools as
\* the previous one, one of which has another name, and another signature.
NameChangeChangesSignature ==
  /\ Rebuilt
  /\ sToolState[1].profile = sPrevious[1].toolState.profile
  /\ Len(sToolState[1].tools) = Len(sPrevious[1].toolState.tools)
  /\ \E k \in 1..Len(sToolState[1].tools) :
       /\ sToolState[1].tools[k].name # sPrevious[1].toolState.tools[k].name
       /\ sToolState[1].tools[k].kind = sPrevious[1].toolState.tools[k].kind
  /\ sToolState[1].signature # sPrevious[1].toolState.signature

\* The rebuilt ToolState lacks a tool of the previous one and has another
\* signature.
ToolRemovedChangesSignature ==
  /\ Rebuilt
  /\ sToolState[1].profile = sPrevious[1].toolState.profile
  /\ Len(sToolState[1].tools) < Len(sPrevious[1].toolState.tools)
  /\ sToolState[1].signature # sPrevious[1].toolState.signature

\* A full ToolState rebuilt after the content type of an endpoint changed has
\* another signature.
ContentTypeChangeChangesSignature ==
  /\ Rebuilt /\ sConfig.toolProfile = "full"
  /\ sToolState[1].signature # sPrevious[1].toolState.signature
  /\ Len(sToolState[1].tools) = Len(sPrevious[1].toolState.tools)

\* The endpoint is the one a configuration flag that is off excludes.
ExcludedByFlags(endpoint, cfg) ==
  \/ endpoint.path = PathVideo /\ ~cfg.includeVideo
  \/ endpoint.path = PathModerations /\ ~cfg.includeModeration
  \/ endpoint.path = PathEmbeddings /\ ~cfg.includeEmbeddings

\* C25: in the full profile the ToolState is the catalog_get tool, then one
\* full_endpoint tool for each catalog endpoint whose method is POST and which
\* the flags do not exclude, in catalog order, then the raw_call tool if and
\* only if allowRawTool is set; nothing else.
C25_FullProfileIsOneToolPerPostEndpoint ==
  BuiltFull =>
    LET tools == sToolState[1].tools
        wanted == SelectSeq(sCatalog, LAMBDA e : e.method = "POST" /\ ~ExcludedByFlags(e, sConfig))
        raw == IF sConfig.allowRawTool THEN 1 ELSE 0
    IN /\ Len(tools) = 1 + Len(wanted) + raw
       /\ tools[1].kind = "catalog_get"
       /\ \A k \in 1..Len(wanted) :
            /\ tools[1 + k].kind = "full_endpoint"
            /\ tools[1 + k].endpointPath = Some(wanted[k].path)
            /\ tools[1 + k].contentType = wanted[k].contentType
       /\ raw = 1 => tools[Len(tools)].kind = "raw_call"

\* A full ToolState built with the moderation flag on and the embeddings flag
\* off from a catalog with a GET endpoint, the embeddings endpoint and the
\* moderation endpoint: catalog_get and the moderation tool.
C25_Witness ==
  /\ BuiltFull /\ sConfig.includeModeration /\ ~sConfig.includeEmbeddings
  /\ ~sConfig.allowRawTool
  /\ Len(sCatalog) = 3
  /\ \E i \in 1..3 : sCatalog[i].method = "GET"
  /\ \E i \in 1..3 : sCatalog[i].path = PathEmbeddings
  /\ \E i \in 1..3 : sCatalog[i].path = PathModerations
  /\ Len(sToolState[1].tools) = 2
  /\ sToolState[1].tools[2].kind = "full_endpoint"
  /\ sToolState[1].tools[2].endpointPath = Some(PathModerations)

\* A full ToolState built without the video flag from a catalog with the video
\* endpoint and two more POST endpoints has three tools.
VideoExcludedByFlag ==
  /\ BuiltFull /\ ~sConfig.includeVideo /\ ~sConfig.allowRawTool
  /\ Len(sCatalog) = 3
  /\ \A i \in 1..3 : sCatalog[i].method = "POST" /\ ~ExcludedByFlags(sCatalog[i], [sConfig EXCEPT !.includeVideo = TRUE])
  /\ \E i \in 1..3 : sCatalog[i].path = PathVideo
  /\ Len(sToolState[1].tools) = 3

\* ------------------------------------------------ pricing: properties

\* execute resolved with the success envelope of a 2xx upstream response.
SucceededUpstream ==
  /\ UpstreamResponded /\ ExecuteResolved
  /\ xUpstream[1].response.status >= 200 /\ xUpstream[1].response.status < 300

RequestedModel == xPlan[1].model
ModelIsPriced(endpoint, model) ==
  Truthy(model) /\ model[1][1] \in PricedNames(endpoint.modelPrices)
PriceOf(endpoint, name) ==
  endpoint.modelPrices[CHOOSE k \in DOMAIN endpoint.modelPrices :
                         endpoint.modelPrices[k][1] = name][2]

\* The catalog price of the requested model: the flat price of a flat
\* endpoint; on a per_model endpoint the model's own price when it is priced,
\* and the "_default" price when the model is absent or not priced.
CatalogPriceIs(endpoint, model, price) ==
  CASE endpoint.priceType = "flat" -> price = endpoint.flatPriceSats
    [] endpoint.priceType = "per_model" /\ ModelIsPriced(endpoint, model) ->
         price = Some(PriceOf(endpoint, model[1][1]))
    [] endpoint.priceType = "per_model" /\ ~ModelIsPriced(endpoint, model)
         /\ "_default" \in PricedNames(endpoint.modelPrices) ->
         price = Some(PriceOf(endpoint, "_default"))
    [] OTHER -> TRUE

\* C26: for a 2xx upstream response the success envelope reports the routed
\* endpoint path and price_sats equal to the catalog price of the requested
\* model on that endpoint: the flat price, the model's own price when it is
\* priced, the endpoint's "_default" price when it is absent or not priced.
C26_SuccessReportsCatalogPrice ==
  SucceededUpstream =>
    /\ ExecResult.ok
    /\ ExecResult.endpoint = xPlan[1].endpointPath
    /\ CatalogPriceIs(xPlan[1].endpoint, RequestedModel, ExecResult.price_sats)

\* The same, for requested models that are not the name of a property every
\* object inherits.
SuccessReportsCatalogPriceOfOrdinaryNames ==
  (SucceededUpstream /\ ~(Truthy(RequestedModel) /\ RequestedModel[1][1] \in ObjectPrototypeKeys)) =>
    /\ ExecResult.ok
    /\ ExecResult.endpoint = xPlan[1].endpointPath
    /\ CatalogPriceIs(xPlan[1].endpoint, RequestedModel, ExecResult.price_sats)

\* A text generation for the model "constructor" on the per_model endpoint
\* with a "_default" price succeeded and its envelope has no price_sats.
UnpricedModelWithoutPrice ==
  /\ SucceededUpstream
  /\ xPlan[1].endpoint = EpResponsesPerModel
  /\ RequestedModel = Some(Str("constructor"))
  /\ ExecResult.price_sats = Undefined

\* ------------------------------------------------ timeouts: properties

ArmedTimers == {k \in 1..Len(hTimers) : hTimers[k] = "armed"}
FetchPending == hPc \in {"fetching", "replaying"}
BodyPending == hPc \in {"reading", "readingChallenge", "readingReplay"}

\* C27: every attempt and the auto-pay replay arm a timer of their own; from
\* the start of the request until its response, body included, has been
\* consumed, that timer is armed; once the attempt has ended no timer is armed.
C27_TimerArmedUntilResponseConsumed ==
  /\ Len(hTimers) = Len(hFetches)
  /\ (FetchPending \/ BodyPending) => ArmedTimers = {Len(hTimers)}
  /\ ~(FetchPending \/ BodyPending) => ArmedTimers = {}

\* The timer of an attempt is armed exactly while its fetch promise is
\* pending, and every attempt and replay has its own.
TimerArmedWhileFetchPending ==
  /\ Len(hTimers) = Len(hFetches)
  /\ FetchPending => ArmedTimers = {Len(hTimers)}
  /\ ~FetchPending => ArmedTimers = {}

\* The body of a 200 response is being read and no timer is armed.
BodyReadWithoutTimer ==
  /\ hPc = "reading" /\ hResponse[1].status = 200
  /\ ArmedTimers = {}

\* ------------------------------------------------ tool callback: properties

\* The cache holds an entry for the hash that has not expired.
LiveEntry(entries, now, paymentHash) ==
  \E i \in 1..Len(entries) :
    entries[i].paymentHash = paymentHash /\ ~(now > entries[i].expiresAt)

\* The call carried a payment_preimage for a paid tool in l402_passthrough
\* mode, and the cache had no live entry for its hash.
TokenLost(finished) ==
  /\ tMode = "l402_passthrough"
  /\ finished.tool.kind # "catalog_get"
  /\ IsDefined(finished.args.payment_preimage)
  /\ ~(tContext /\ IsDefined(finished.held)
         /\ ~(finished.held[1].now > finished.held[1].entry.expiresAt))

\* The call returned the structured unknown_payment failure and handed nothing
\* to the executor.
AnsweredUnknownPayment(finished) ==
  /\ finished.settled = "resolved"
  /\ finished.content[1].ok = FALSE
  /\ finished.content[1].status = 400
  /\ finished.content[1].error.code = Str("unknown_payment")
  /\ finished.isError
  /\ finished.request = Undefined
  /\ ~finished.sent
  /\ finished.reply = Undefined

\* A paid call without payment_preimage.
AsksForQuote(finished) ==
  /\ finished.tool.kind # "catalog_get"
  /\ ~IsDefined(finished.args.payment_preimage)

\* The call was handed to the executor as a quote request. With the fields
\* its tool requires it was sent upstream without credentials, and a 402 of
\* the upstream came back as the call's result, with the reply's invoice and
\* payment hash; when the upstream could not be reached the result is the
\* envelope of that error. Without a required field the executor rejected
\* with invalid_input before any request.
ObtainedQuote(finished) ==
  /\ IsDefined(finished.request)
  /\ finished.request[1].allow_l402_quote
  /\ IF Truthy(finished.args.model)
     THEN /\ finished.settled = "resolved"
          /\ finished.sent
          /\ finished.authorization = Undefined
          /\ IF IsDefined(finished.reply)
             THEN finished.reply[1].status = 402 =>
                    LET result == finished.content[1]
                        fields == finished.reply[1].data.fields
                    IN /\ ~result.ok
                       /\ result.status = 402
                       /\ result.error.metadata.invoice = fields.invoice
                       /\ result.error.metadata.payment_hash = fields.payment_hash
             ELSE finished.content[1].error.code
                    \in {Str("upstream_timeout"), Str("network_error")}
     ELSE /\ finished.settled = "rejected"
          /\ ~finished.sent
          /\ finished.error[1].code = Str("invalid_input")

\* C28: in l402_passthrough mode a paid call whose payment_preimage hashes to
\* no live cache entry returns the structured unknown_payment failure (status
\* 400) without throwing and without reaching the upstream, and the call
\* without payment_preimage that follows it is sent upstream as a quote
\* request and returns the upstream's 402 quote.
C28_LostTokenIsUnknownPaymentThenQuote ==
  \A i \in 1..Len(tLog) :
    TokenLost(tLog[i]) =>
      /\ AnsweredUnknownPayment(tLog[i])
      /\ (i < Len(tLog) /\ AsksForQuote(tLog[i + 1])) => ObtainedQuote(tLog[i + 1])

\* A token cached by an earlier quote has expired when the preimage comes, and
\* the next call obtains a quote that is cached again.
C28_Witness ==
  /\ Len(tLog) = 2
  /\ TokenLost(tLog[1])
  /\ tContext
  /\ IsDefined(tLog[1].held)
  /\ tLog[1].held[1].now > tLog[1].held[1].entry.expiresAt
  /\ AnsweredUnknownPayment(tLog[1])
  /\ AsksForQuote(tLog[2])
  /\ ~tLog[2].args.allow_l402_quote
  /\ tCall = Undefined
  /\ tLog[2].settled = "resolved"
  /\ tLog[2].sent
  /\ tLog[2].reply = Some(QuoteReply(Str("00"), Str("macA")))
  /\ tLog[2].content[1].status = 402
  /\ LiveEntry(cEntries, cNow, paymentHashFromPreimage(Str("00")))

\* The call with the preimage found nothing in the Map although the clock has
\* not moved since the tools were registered: the entry of an earlier quote
\* was evicted at capacity.
TokenLostByEviction ==
  /\ tLog # <<>>
  /\ TokenLost(tLog[Len(tLog)])
  /\ tContext
  /\ tLog[Len(tLog)].args.payment_preimage = Some(Str("00"))
  /\ ~IsDefined(tLog[Len(tLog)].held)
  /\ cNow = 0
  /\ tRegistered
  /\ cEntries # <<>>
  /\ AnsweredUnknownPayment(tLog[Len(tLog)])

\* ------------------------------------------- registry: notification rule

\* The sync that just completed recomputed a signature other than the stored one.
SignatureDiffers ==
  ~(IsDefined(last.pre.toolState)
    /\ last.pre.toolState[1].signature = last.next[1].signature)

NotificationsSent == toolListChangedCount - last.pre.toolListChangedCount

\* C29: a completed syncTools sent the list-changed notification (once) if and
\* only if the recomputed signature differs from the stored one, a ToolState
\* was stored before the call, it was called with emitNotification=true and the
\* host was connected at that moment; otherwise it sent none. What it returns is
\* whether the signature differs, whether or not the notification was sent.
C29_NotificationIffAllFour ==
  last.op = "sync" =>
    /\ NotificationsSent \in {0, 1}
    /\ (NotificationsSent = 1) <=>
         (/\ SignatureDiffers
          /\ IsDefined(last.pre.toolState)
          /\ last.call.emitNotification
          /\ last.pre.connected)
    /\ last.ret <=> SignatureDiffers

\* A first sync that asked for the notification on a connected host: it returned
\* true and sent nothing.
C29_Witness ==
  /\ last.op = "sync"
  /\ ~IsDefined(last.pre.toolState)
  /\ last.call.emitNotification /\ last.pre.connected
  /\ ~last.call.init
  /\ last.ret = TRUE
  /\ NotificationsSent = 0

\* --------------------------------------------- raw_call: properties

RawCall == xCall # Undefined /\ xCall[1].tool.kind = "raw_call"
RawEndpoint == xCall[1].args.endpoint

\* The catalog state current when execute was called.
CatalogAtCall == xCall[1].catalog

\* The path is the path of a POST endpoint of the catalog state current at
\* call time.
Allowlisted(path) ==
  \E k \in 1..Len(CatalogAtCall) :
    CatalogAtCall[k].path = path /\ CatalogAtCall[k].method = "POST"

\* The handler reached its upstream call, and the HTTP client sent it.
RequestIssued ==
  /\ xPlan # Undefined /\ xPlan[1].kind = "posts"
  /\ resolveHeaders(xOptions, PostOptions(xPlan[1])).ok

\* The call ended in a failure with the code and status, as an envelope or as
\* the error execute rejects with.
FailedWith(code, status) ==
  /\ ExecuteDone
  /\ IF xOutcome[1].settled = "resolved"
     THEN ~ExecResult.ok /\ ExecResult.error.code = Str(code) /\ ExecResult.status = status
     ELSE xOutcome[1].error[1].code = Str(code) /\ xOutcome[1].error[1].status = status

\* C30: a raw_call whose endpoint argument (a non-empty string) is not the path
\* of a POST endpoint of the current catalog state issues no upstream request
\* and fails with endpoint_not_allowlisted (status 400); a raw_call without an
\* endpoint (absent or empty) issues none either; every upstream request of a
\* raw_call goes to its endpoint argument, which is the path of a POST endpoint
\* of that catalog state.
C30_RawCallIsStrictAllowlist ==
  RawCall =>
    /\ (Truthy(RawEndpoint) /\ ~Allowlisted(RawEndpoint[1])) =>
         /\ ~RequestIssued
         /\ xUpstream = Undefined
         /\ FailedWith("endpoint_not_allowlisted", 400)
    /\ ~Truthy(RawEndpoint) => (~RequestIssued /\ FailedWith("invalid_input", 400))
    /\ RequestIssued =>
         /\ Truthy(RawEndpoint)
         /\ xPlan[1].endpointPath = RawEndpoint[1]
         /\ Allowlisted(xPlan[1].endpointPath)

\* A raw_call for the path of an endpoint the catalog lists with method GET was
\* turned down.
C30_Witness ==
  /\ RawCall
  /\ RawEndpoint = Some(EpModelsGet.path)
  /\ \E k \in 1..Len(CatalogAtCall) : CatalogAtCall[k] = EpModelsGet
  /\ ~Allowlisted(RawEndpoint[1])
  /\ FailedWith("endpoint_not_allowlisted", 400)
  /\ xUpstream = Undefined

\* ------------------------------------------------ tool callback: pay then retry

\* The call carried a payment_preimage for a paid tool in l402_passthrough
\* mode while the cache held an unexpired entry for its hash.
TokenHeld(finished) ==
  /\ tMode = "l402_passthrough"
  /\ finished.tool.kind # "catalog_get"
  /\ IsDefined(finished.args.payment_preimage)
  /\ tContext
  /\ IsDefined(finished.held)
  /\ ~(finished.held[1].now > finished.held[1].entry.expiresAt)

\* The callback handed executor.execute the held entry's macaroon and the
\* caller's preimage as credentials, and arguments without payment_preimage.
HandedCredentials(finished) ==
  /\ finished.held[1].entry.paymentHash
       = paymentHashFromPreimage(finished.args.payment_preimage[1])
  /\ IsDefined(finished.request)
  /\ finished.l402Auth = Some([macaroon |-> finished.held[1].entry.macaroon,
                               preimage |-> finished.args.payment_preimage[1]])
  /\ finished.request[1].payment_preimage = Undefined
  /\ finished.request[1].allow_l402_quote = finished.args.allow_l402_quote

\* The call went upstream with the L402 Authorization header of the held
\* entry's macaroon and the caller's preimage.
SentWithCredentials(finished) ==
  /\ finished.sent
  /\ finished.authorization
       = Some(buildL402Authorization(finished.held[1].entry.macaroon,
                                     finished.args.payment_preimage[1]))

\* executor.execute was called without credentials and with allow_l402_quote
\* set.
ExecutedAsQuote(finished) ==
  /\ IsDefined(finished.request)
  /\ finished.l402Auth = Undefined
  /\ finished.request[1].allow_l402_quote

\* executor.execute was called with the caller's arguments as they came.
ExecutedUntouched(finished) ==
  /\ finished.request = Some(finished.args)
  /\ finished.l402Auth = Undefined

\* A paid call ends with the upstream's 402 that quotes the invoice of the
\* preimage under the macaroon.
QuoteReturned(preimage, macaroon) ==
  /\ tMode = "l402_passthrough"
  /\ tContext
  /\ IsDefined(tCall)
  /\ tCall' = Undefined
  /\ tLog'[Len(tLog')].reply = Some(QuoteReply(preimage, macaroon))

\* The cache holds the macaroon under the hash of the preimage, not expired.
TokenCached(entries, now, preimage, macaroon) ==
  \E i \in 1..Len(entries) :
    /\ entries[i].paymentHash = paymentHashFromPreimage(preimage)
    /\ entries[i].macaroon = macaroon
    /\ entries[i].invoice = QuotePayment.invoice[1]
    /\ ~(now > entries[i].expiresAt)

\* C31: in l402_passthrough mode a paid call with a payment_preimage whose
\* SHA-256 has an unexpired cache entry is executed with the credentials
\* {macaroon of the entry, preimage}: the callback hands them over with
\* payment_preimage removed from the arguments, and the call goes upstream
\* under them; a paid call without payment_preimage is executed with
\* allow_l402_quote true; a catalog_get call is executed with its arguments
\* unchanged and without credentials.
C31_PayThenRetry ==
  \A i \in 1..Len(tLog) :
    /\ TokenHeld(tLog[i]) => (HandedCredentials(tLog[i]) /\ SentWithCredentials(tLog[i]))
    /\ (tMode = "l402_passthrough" /\ AsksForQuote(tLog[i])) => ExecutedAsQuote(tLog[i])
    /\ (tMode = "l402_passthrough" /\ tLog[i].tool.kind = "catalog_get")
         => ExecutedUntouched(tLog[i])

\* What the callback does of the round trip: a paid call that returns a 402
\* carrying a macaroon, an invoice and a payment hash leaves them cached under
\* the hash; a paid call whose preimage has an unexpired entry hands
\* executor.execute the credentials {macaroon of the entry, preimage} and
\* arguments without payment_preimage; a paid call without payment_preimage is
\* handed over with allow_l402_quote true; a catalog_get call with its
\* arguments unchanged and without credentials.
CallbackResolvesCredentials ==
  /\ [](\A i \in 1..Len(tLog) :
          /\ TokenHeld(tLog[i]) => HandedCredentials(tLog[i])
          /\ (tMode = "l402_passthrough" /\ AsksForQuote(tLog[i])) => ExecutedAsQuote(tLog[i])
          /\ (tMode = "l402_passthrough" /\ tLog[i].tool.kind = "catalog_get")
               => ExecutedUntouched(tLog[i]))
  /\ [][\A preimage \in {Str("00"), Str("01")}, macaroon \in {Str("macA"), Str("macB")} :
          QuoteReturned(preimage, macaroon)
            => TokenCached(cEntries', cNow', preimage, macaroon)]_vars

\* What execute does with a call handed over with credentials: the request
\* options it builds carry none, so the call is answered missing_bearer_token
\* (401) with no request sent, or, when the caller also set allow_l402_quote,
\* goes upstream without an Authorization header.
CredentialsNeverSent ==
  \A i \in 1..Len(tLog) :
    TokenHeld(tLog[i]) =>
      IF tLog[i].args.allow_l402_quote
      THEN tLog[i].sent /\ tLog[i].authorization = Undefined
      ELSE /\ ~tLog[i].sent
           /\ tLog[i].settled = "resolved"
           /\ tLog[i].content[1].status = 401
           /\ tLog[i].content[1].error.code = Str("missing_bearer_token")

\* A retry with the preimage of a cached quote was handed to the executor with
\* the quote's macaroon and answered missing_bearer_token without a request.
RetryAnsweredMissingBearerToken ==
  /\ tLog # <<>>
  /\ TokenHeld(tLog[Len(tLog)])
  /\ tLog[Len(tLog)].args.payment_preimage = Some(Str("00"))
  /\ tLog[Len(tLog)].l402Auth = Some([macaroon |-> Str("macA"), preimage |-> Str("00")])
  /\ ~tLog[Len(tLog)].sent
  /\ tLog[Len(tLog)].content[1].status = 401
  /\ TokenCached(cEntries, cNow, Str("00"), Str("macA"))

\* ------------------------------------------- tool callback: reuse of a token

\* The callback resolves credentials for a call and goes on to the executor.
CredentialsResolved ==
  /\ tCall = Undefined
  /\ IsDefined(tCall')
  /\ IsDefined(tCall'[1].l402Auth)

\* A call executed with credentials ends, resolved or rejected.
CredentialedCallEnds ==
  /\ IsDefined(tCall)
  /\ IsDefined(tCall[1].l402Auth)
  /\ tCall' = Undefined

\* The ending call's result is a quote that set stores with the Map at
\* capacity, which evicts the oldest entry.
EvictsOnEnd ==
  /\ Len(cEntries) >= cOptions.maxEntries
  /\ cEntries' # cEntries

\* The entry is still in the Map with the macaroon it had.
StillCached(entries, entry) ==
  \E j \in 1..Len(entries) :
    /\ entries[j].paymentHash = entry.paymentHash
    /\ entries[j].macaroon = entry.macaroon
    /\ entries[j].expiresAt >= entry.expiresAt

\* C32: a call with the payment_preimage of a held, unexpired entry is not
\* answered unknown_payment and is forwarded upstream with the entry's
\* macaroon and the preimage, every time it is made.
C32_UseDoesNotConsume ==
  \A i \in 1..Len(tLog) :
    TokenHeld(tLog[i]) =>
      /\ ~AnsweredUnknownPayment(tLog[i])
      /\ SentWithCredentials(tLog[i])

\* What holds of the cache: a call with payment_preimage does not consume the
\* entry it uses. The lookup leaves the Map as it is, and whatever the
\* executor's call ends with the unexpired entry for the preimage's hash is
\* still there with its macaroon unless the storing of a new quote at capacity
\* evicted it; a call with the preimage of a held, unexpired entry is never
\* answered unknown_payment and is handed to the executor with the entry's
\* macaroon.
UseLeavesEntryCached ==
  /\ [][/\ CredentialsResolved => cEntries' = cEntries
        /\ CredentialedCallEnds =>
             \A i \in 1..Len(cEntries) :
               (/\ cEntries[i].paymentHash
                     = paymentHashFromPreimage(tCall[1].args.payment_preimage[1])
                /\ ~(cNow > cEntries[i].expiresAt)
                /\ ~EvictsOnEnd)
                 => StillCached(cEntries', cEntries[i])]_vars
  /\ [](\A i \in 1..Len(tLog) :
          TokenHeld(tLog[i]) =>
            /\ ~AnsweredUnknownPayment(tLog[i])
            /\ IsDefined(tLog[i].l402Auth)
            /\ tLog[i].l402Auth[1].macaroon = tLog[i].held[1].entry.macaroon)

\* A call with the preimage was handed over with the cached macaroon and sent
\* as a quote request, which the upstream answered 402, and the next call with
\* the same preimage is handed over with the same macaroon again.
TokenUsedTwice ==
  /\ tLog # <<>>
  /\ TokenHeld(tLog[Len(tLog)])
  /\ tLog[Len(tLog)].args.payment_preimage = Some(Str("00"))
  /\ tLog[Len(tLog)].l402Auth = Some([macaroon |-> Str("macA"), preimage |-> Str("00")])
  /\ tLog[Len(tLog)].settled = "resolved"
  /\ tLog[Len(tLog)].content[1].status \in {401, 402}
  /\ IsDefined(tCall)
  /\ tCall[1].args.payment_preimage = Some(Str("00"))
  /\ tCall[1].l402Auth = Some([macaroon |-> Str("macA"), preimage |-> Str("00")])
  /\ TokenCached(cEntries, cNow, Str("00"), Str("macA"))

\* ------------------------------------------------- HTTP client: one payment

\* The call's result is the original 402 as it was received.
YieldsOriginal402 ==
  /\ IsDefined(hOriginal)
  /\ hResult = Some(Normalized(402, hOriginal[1].headers, hOriginal[1].data))

\* The call's result is the replay's response.
YieldsReplay ==
  /\ ReplayAnswered
  /\ hResult = Some(Normalized(hReplay[1].status, headersToRecord(hResponse[1].headers),
                               parseResponseData(hResponse[1])))

\* The 402 branch is entered: a 402 has arrived with a handler configured.
Saw402WithHandler == hPc = "readingChallenge"

\* The body of that 402 has been read.
Read402WithHandler ==
  /\ hPc = "readingChallenge"
  /\ hPc' # "readingChallenge"
  /\ hHistory'[Len(hHistory')].body = "read"

\* C33 as stated: the handler is invoked at most once, and after the first 402
\* seen with a handler configured the call ends with the replay's outcome or
\* the original 402 and makes no further attempt.
C33_EndsAfterFirst402 ==
  /\ [](Len(hPaid) <= 1)
  /\ [][Saw402WithHandler =>
          /\ hPc' \in {"readingChallenge", "paying", "done"}
          /\ hPc' = "done" => (YieldsOriginal402 \/ YieldsReplay)']_vars

\* C33: within one call the handler is invoked at most once; a 402 seen with a
\* handler configured whose body has been read ends the retry loop: the handler
\* is invoked or the 402 is returned, and once the handler is invoked no
\* further primary fetch or sleep follows and the call ends with the replay's
\* response or the original 402.
C33_AtMostOnePayment ==
  /\ [](/\ Len(hPaid) <= 1
        /\ hPaid # <<>> =>
             /\ hPc \in {"paying", "replaying", "readingReplay", "done"}
             /\ Len(PrimaryFetches) = Len(hHistory)
             /\ Len(hSleeps) = Len(hHistory) - 1
             /\ CallDone => (YieldsOriginal402 \/ YieldsReplay))
  /\ [][Read402WithHandler =>
          /\ hPc' \in {"paying", "done"}
          /\ hPc' = "done" => YieldsOriginal402']_vars

\* The handler failed on the 402 of a second attempt while a retry was left,
\* and the call ended with that 402 after one payment request.
C33_Witness ==
  /\ CallDone
  /\ Len(hPaid) = 1
  /\ Len(hHistory) = 2
  /\ hOptions.maxRetries = 2
  /\ ReplayFetches = <<>>
  /\ YieldsOriginal402

\* C34: once the handler has returned a preimage, the call's result reflects
\* the replay: the replay's response, or a runtime error when the replayed
\* request fails or times out, and never the original 402 of before the
\* payment.
C34_PaidCallReflectsReplay ==
  (CallDone /\ ReplayFetches # <<>>) =>
    \/ YieldsReplay
    \/ ~ReplayAnswered /\ hResult[1].kind = "error"

\* Where the replay is answered in full, its response is the call's result.
AnsweredReplayIsResult ==
  (CallDone /\ ReplayAnswered) => YieldsReplay

\* ------------------------------------------------- HTTP client: termination

\* The safety half, for every client configuration.
FetchesBoundedAndNoInternalError ==
  /\ Len(PrimaryFetches) <= hOptions.maxRetries + 1
  /\ Len(ReplayFetches) <= 1
  /\ CallDone =>
       /\ IsDefined(hResult)
       /\ hResult[1].kind \in {"response", "error"}
       /\ hResult[1].code # "internal_retry_error"

\* C35: a call of requestWithRetries makes at most maxRetries + 1 primary
\* fetches and at most one replay, ends with a normalized response or a
\* runtime error that is never internal_retry_error, and, every fetch, body
\* read, handler call and sleep completing, does end.
C35_Terminates ==
  /\ []FetchesBoundedAndNoInternalError
  /\ (CallStarted ~> CallDone)

\* The last of maxRetries + 1 attempts got a 402 that was paid, and the call
\* ended with the replay's response.
C35_Witness ==
  /\ CallDone
  /\ hOptions.maxRetries = 2
  /\ Len(PrimaryFetches) = 3
  /\ Len(ReplayFetches) = 1
  /\ YieldsReplay

\* ------------------------------------------ token cache: size and timer

\* C36: with maxEntries >= 1, after any sequence of set, get, purgeExpired,
\* startCleanup, dispose, timer firings and clock advances the Map holds at
\* most maxEntries entries, at most one interval timer is active and it is the
\* one cleanupTimer holds, and after dispose there is no timer and no entry.
C36_SizeAndTimerBounded ==
  /\ Len(cEntries) <= cOptions.maxEntries
  /\ cIntervals <= 1
  /\ (cIntervals = 1) = cCleanupTimer
  /\ cLast.op = "dispose" => (cIntervals = 0 /\ cEntries = <<>>)

\* startCleanup is the last call, on a full Map that still holds an expired
\* entry: one timer is active.
C36_Witness ==
  /\ cLast.op = "startCleanup"
  /\ cIntervals = 1
  /\ cOptions.maxEntries = 2
  /\ Len(cEntries) = 2
  /\ \E i \in 1..2 : cEntries[i].expiresAt < cNow

\* ------------------------------------------ token cache: overwriting set

\* The last operation was a set for a payment hash the Map held.
OverwritingSet ==
  /\ cLast.op = "set"
  /\ MapHas(cLast.pre, cLast.challenge.paymentHash)

\* Every unexpired entry held before under another hash is held unchanged.
OthersKept ==
  \A i \in 1..Len(cLast.pre) :
    (/\ cLast.pre[i].paymentHash # cLast.challenge.paymentHash
     /\ ~(cNow > cLast.pre[i].expiresAt))
      => MapGet(cEntries, cLast.pre[i].paymentHash) = Some(cLast.pre[i])

\* C40: a set for a payment hash already present replaces that entry in place
\* and evicts no other entry, also at capacity: every other unexpired entry is
\* still held and the size is unchanged.
C40_OverwriteEvictsNothing ==
  OverwritingSet => (OthersKept /\ Len(cEntries) = Len(cLast.pre))

\* Below capacity an overwriting set keeps every other entry, the size and
\* the key's position.
OverwriteBelowCapacityInPlace ==
  (OverwritingSet /\ Len(cLast.pre) < cOptions.maxEntries) =>
    /\ Len(cEntries) = Len(cLast.pre)
    /\ \A i \in 1..Len(cLast.pre) :
         IF cLast.pre[i].paymentHash = cLast.challenge.paymentHash
         THEN /\ cEntries[i].paymentHash = cLast.challenge.paymentHash
              /\ cEntries[i].macaroon = cLast.challenge.macaroon
         ELSE cEntries[i] = cLast.pre[i]

\* ------------------------------------------ registry: host and ToolState

\* The names of the stored ToolState; none when there is none.
CurrentToolNames == IF IsDefined(toolState) THEN ToolNames(toolState[1]) ELSE {}

\* C37: whenever no syncTools is suspended, after any sequence of completed
\* initialize, syncTools and dispose calls, the names registered on the host
\* are the names of currentToolState() (none when it is undefined).
C37_HostMatchesToolState ==
  inflight = <<>> => hostTools = CurrentToolNames

\* The host's names are always those of the handles the registry holds, and
\* while it holds handles they are the stored ToolState's tools.
HostMatchesHandles ==
  /\ hostTools = Range(registeredTools)
  /\ (inflight = <<>> /\ registeredTools # <<>>) => hostTools = CurrentToolNames

\* ------------------------------------------ registry: dispose during a sync

\* dispose() has just run with a syncTools suspended on the catalog fetch, and
\* that syncTools completes next.
SyncCompletesAfterDispose ==
  /\ last.op = "dispose"
  /\ inflight # <<>>
  /\ last'.op = "sync"

\* C38: when dispose() runs while a syncTools is suspended on the catalog
\* fetch, the completion of that syncTools registers no tool on the host and
\* sends no list-changed notification.
C38_DisposedSyncRegistersNothing ==
  [][SyncCompletesAfterDispose =>
       /\ hostTools' = {}
       /\ registeredTools' = <<>>
       /\ toolListChangedCount' = toolListChangedCount]_vars

\* ------------------------------------------ registry: failed catalog fetch

\* The operation that completed last was a syncTools whose catalog fetch
\* rejected.
SyncRejected == last.op = "reject"

\* C39: a syncTools whose catalog fetch fails rejects and leaves the stored
\* ToolState, the stored CatalogState, the handles and the host's names as
\* they were and sends no notification; the successful syncTools that follows
\* compares the recomputed signature with that preserved ToolState.
C39_FailedFetchChangesNothing ==
  /\ [](SyncRejected =>
          /\ toolState = last.pre.toolState
          /\ catalogState = last.pre.catalogState
          /\ registeredTools = last.pre.registeredTools
          /\ hostTools = last.pre.hostTools
          /\ toolListChangedCount = last.pre.toolListChangedCount
          /\ last.ops = <<>>)
  /\ [][(SyncRejected /\ last'.op = "sync") =>
          /\ last'.pre.toolState = toolState
          /\ last'.ret = SignatureChanged(toolState, last'.next[1])]_vars

\* A refresh with notification failed on a connected host that had tools
\* registered from an earlier sync.
C39_Witness ==
  /\ SyncRejected
  /\ last.call.emitNotification /\ last.call.forceRefresh
  /\ connected
  /\ IsDefined(toolState)
  /\ IsDefined(catalogState)
  /\ Len(registeredTools) >= 2
====
